---- MODULE Spec2Model ----
(***************************************************************************)
(* Shared memory store of mcp-agent-memory: the storage file guarded by    *)
(* utils/file_lock.py (file_lock, atomic_write) and the load / save /      *)
(* backup functions and tool handlers of shared_memory_mcp.py.             *)
(*                                                                         *)
(* The file system is modelled with inodes: a path names an inode, an open *)
(* handle keeps the inode it was opened on, flock() locks the inode of the *)
(* handle, and Path.replace() rebinds the target path to the inode of the  *)
(* temporary file.  Time is counted in units of 0.1 s inside file_lock and *)
(* in whole seconds (the resolution of the backup file names) in `now`.    *)
(***************************************************************************)
EXTENDS Integers, Sequences, FiniteSets, TLC

\* ---------------------------------------------------------------- bounds
NProcs == 2          \* concurrent callers (threads or processes)
MaxFaults == 1       \* injected OS failures (open / read / write raising) per run
MaxTime == 1         \* last value of the wall clock (seconds)
MaxInit == 1         \* entries in the container before the run
\* parameters of file_lock in units of 0.1 s, scaled down from the values the
\* store passes (timeout=10.0, max_retry_delay=2.0) so that the retry loop has
\* few iterations; the doubling, the cap and the overshoot of the deadline all occur
TIMEOUT == 4
MAX_RETRY_DELAY == 2
MAX_ENTRIES == 3     \* rotation threshold (1000 in the source)
MAX_WORDS_PER_ENTRY == 2   \* words allowed in a content (200 in the source)
CHARACTER_LIMIT == 16      \* characters of a read_memory response (25000 in the source)

\* ------------------------------------------------------ program constants
RETRY_DELAY == 1         \* retry_delay=0.1
KEEP == 10               \* cleanup_old_backups(keep=10)
MAX_TAGS == 10           \* tags: max_length=10

Procs == 1..NProcs
Inodes == 1..(2 * NProcs + 2)
Times == 0..MaxTime
None == -1

MEMORY_FILE == "memory.json"
\* atomic_write: temp_path = file_path.parent / f".{file_path.name}.tmp"
temp_path == ".memory.json.tmp"
Paths == {MEMORY_FILE, temp_path}

VARIABLES
    pathIno,   \* directory: path -> inode, 0 when the path does not exist
    data,      \* inode -> content on disk
    flock,     \* inode -> caller holding the exclusive flock, 0 when free
    backups,   \* BACKUP_DIR: timestamp of the file name -> content
    now,       \* wall clock, seconds
    nextId,    \* source of fresh uuid4 values
    faults,    \* OS failures injected so far
    st         \* caller -> control state and local variables of its call

vars == <<pathIno, data, flock, backups, now, nextId, faults, st>>

\* ------------------------------------------------------------ file contents
NoFile == [kind |-> "nofile"]
Empty == [kind |-> "empty"]            \* zero bytes
Partial == [kind |-> "partial"]        \* an incomplete prefix: does not parse
Container(es, c) == [kind |-> "container", entries |-> es, created_at |-> c]
Doc(w) == [kind |-> "doc", thread_id |-> w]   \* the JSON document a test writer writes
Legacy(es) == [kind |-> "legacy", entries |-> es]   \* v1 format: a bare JSON list
Other == [kind |-> "other"]            \* valid JSON that is no list and has no "entries"

Min(a, b) == IF a < b THEN a ELSE b
Max(a, b) == IF a > b THEN a ELSE b

Referenced(i) ==
    \/ \E q \in Paths : pathIno[q] = i
    \/ \E p \in DOMAIN st : st[p].file_handle = i \/ st[p].tmp_handle = i
FreeInodes == {i \in Inodes : ~Referenced(i)}
NewInode == CHOOSE i \in FreeInodes : \A j \in FreeInodes : i <= j

\* an inode that no path names and no handle holds is freed
Collect(d, pi, s) ==
    [i \in Inodes |->
        IF \/ \E q \in Paths : pi[q] = i
           \/ \E p \in DOMAIN s : s[p].file_handle = i \/ s[p].tmp_handle = i
        THEN d[i] ELSE Empty]

\* ------------------------------------------------------- texts and entries
\* a str is a sequence of characters; " " stands for any whitespace character
IsSpace(c) == c = " "

RECURSIVE lstrip(_)
lstrip(s) == IF s # <<>> /\ IsSpace(Head(s)) THEN lstrip(Tail(s)) ELSE s

RECURSIVE rstrip(_)
rstrip(s) == IF s # <<>> /\ IsSpace(s[Len(s)]) THEN rstrip(SubSeq(s, 1, Len(s) - 1)) ELSE s

\* str.strip(), also what str_strip_whitespace=True applies to every str field
strip(s) == rstrip(lstrip(s))

\* str.lower()
lower(s) == [i \in DOMAIN s |-> IF s[i] = "A" THEN "a" ELSE s[i]]

\* text.split(): skip the whitespace, cut the token at the next whitespace, go on
RECURSIVE split(_)
split(s) ==
    LET t == lstrip(s)
        stops == {i \in DOMAIN t : IsSpace(t[i])}
        n == IF stops = {} THEN Len(t)
             ELSE (CHOOSE i \in stops : \A j \in stops : i <= j) - 1
    IN IF t = <<>> THEN <<>>
       ELSE <<SubSeq(t, 1, n)>> \o split(SubSeq(t, n + 1, Len(t)))

\* len(text.split())
count_words(text) == Len(split(text))

\* an id check that lets every string through
AnyEntryId(entry_id) == TRUE

\* uuid.UUID(entry_id) parses: the ids are numbered, 0 stands for a string
\* that is no UUID
validate_entry_id(entry_id) == entry_id > 0

\* first index of the entry with that id, 0 for None
find_entry_by_id(memories, entry_id) ==
    LET hits == {i \in DOMAIN memories : memories[i].entry_id = entry_id}
    IN IF hits = {} THEN 0 ELSE CHOOSE i \in hits : \A j \in hits : i <= j

NonBlank(tag) == strip(tag) # <<>>
NormTag(tag) == lower(strip(tag))

\* [tag.strip().lower() for tag in v if tag.strip()]
validate_tags(v) ==
    LET kept == SelectSeq(v, NonBlank) IN [i \in DOMAIN kept |-> NormTag(kept[i])]

\* Optional[T]: <<>> is None, <<x>> is a supplied x
Absent == <<>>
Some(x) == <<x>>

\* AddMemoryInput: the fields after str_strip_whitespace and the validators
AddMemoryInput(raw) ==
    [agent_name |-> strip(raw.agent_name), content |-> strip(raw.content),
     tags |-> validate_tags(raw.tags), priority |-> raw.priority,
     metadata |-> raw.metadata]

\* a validation without validate_word_count
AcceptsAnyWordCount(raw) ==
    /\ Len(strip(raw.agent_name)) >= 1
    /\ Len(strip(raw.content)) >= 1
    /\ Len(raw.tags) <= MAX_TAGS

\* min_length=1 on agent_name and content, validate_word_count, max_length of tags
AddMemoryInputAccepts(raw) ==
    /\ Len(strip(raw.agent_name)) >= 1
    /\ Len(strip(raw.content)) >= 1
    /\ count_words(strip(raw.content)) <= MAX_WORDS_PER_ENTRY
    /\ Len(raw.tags) <= MAX_TAGS

\* UpdateMemoryInput: content is stripped, tags are taken as given
UpdateMemoryInput(raw) ==
    [raw EXCEPT !.content = IF @ = Absent THEN Absent ELSE Some(strip(@[1]))]

UpdateMemoryInputAccepts(raw) ==
    raw.content # Absent =>
        /\ Len(strip(raw.content[1])) >= 1
        /\ count_words(strip(raw.content[1])) <= MAX_WORDS_PER_ENTRY

\* an entry built without the caller's metadata
NewEntryNoMetadata(params, entry_id, timestamp) ==
    [entry_id |-> entry_id, timestamp |-> timestamp,
     agent_name |-> params.agent_name, content |-> params.content,
     word_count |-> count_words(params.content), tags |-> params.tags,
     priority |-> params.priority, metadata |-> {},
     updated_at |-> None]

\* the entry add_memory builds
NewEntry(params, entry_id, timestamp) ==
    [entry_id |-> entry_id, timestamp |-> timestamp,
     agent_name |-> params.agent_name, content |-> params.content,
     word_count |-> count_words(params.content), tags |-> params.tags,
     priority |-> params.priority, metadata |-> params.metadata,
     updated_at |-> None]

\* an update that empties the tags when none are supplied
UpdateEntryClearTags(entry, params, t) ==
    [entry EXCEPT
        !.content = IF params.content # Absent THEN params.content[1] ELSE @,
        !.word_count = IF params.content # Absent THEN count_words(params.content[1]) ELSE @,
        !.tags = IF params.tags # Absent THEN validate_tags(params.tags[1]) ELSE <<>>,
        !.priority = IF params.priority # Absent THEN params.priority[1] ELSE @,
        !.metadata = IF params.metadata # Absent THEN params.metadata[1] ELSE @,
        !.updated_at = t]

\* an update that sets the content and leaves word_count as it was
UpdateEntryKeepCount(entry, params, t) ==
    [entry EXCEPT
        !.content = IF params.content # Absent THEN params.content[1] ELSE @,
        !.tags = IF params.tags # Absent THEN validate_tags(params.tags[1]) ELSE @,
        !.priority = IF params.priority # Absent THEN params.priority[1] ELSE @,
        !.metadata = IF params.metadata # Absent THEN params.metadata[1] ELSE @,
        !.updated_at = t]

\* update_memory: the supplied fields, then updated_at
UpdateEntry(entry, params, t) ==
    [entry EXCEPT
        !.content = IF params.content # Absent THEN params.content[1] ELSE @,
        !.word_count = IF params.content # Absent THEN count_words(params.content[1]) ELSE @,
        !.tags = IF params.tags # Absent THEN validate_tags(params.tags[1]) ELSE @,
        !.priority = IF params.priority # Absent THEN params.priority[1] ELSE @,
        !.metadata = IF params.metadata # Absent THEN params.metadata[1] ELSE @,
        !.updated_at = t]

\* a removal that compares with > instead of !=
RemoveIdAndOlder(memories, entry_id) ==
    LET Newer(m) == m.entry_id > entry_id IN SelectSeq(memories, Newer)

\* [m for m in memories if m.get("entry_id") != entry_id]
RemoveId(memories, entry_id) ==
    LET Differs(m) == m.entry_id # entry_id IN SelectSeq(memories, Differs)

Rank(priority) == CASE priority = "high" -> 0 [] priority = "medium" -> 1
                    [] priority = "low" -> 2 [] OTHER -> 1

Reversed(seq) == [i \in DOMAIN seq |-> seq[Len(seq) + 1 - i]]

\* sorted(memories, key=rank): stable, rank by rank
StableByRank(seq) ==
    LET OfRank(r) == LET Has(m) == Rank(m.priority) = r IN SelectSeq(seq, Has)
    IN OfRank(0) \o OfRank(1) \o OfRank(2)

\* timestamps and date bounds are ISO strings compared as strings; they are
\* numbered in their string order, and the empty string comes before all
EmptyDate == 0 - 1

\* a tag filter that asks for one of the tags instead of all of them
FilterAnyTag(memories, agent_filter, tags, priority, date_from, date_to) ==
    LET ByAgent(m) == agent_filter \in {Absent, Some(<<>>)} \/ m.agent_name = agent_filter[1]
        ByTags(m) == tags \in {Absent, Some(<<>>)} \/
                     \E k \in DOMAIN tags[1] : \E j \in DOMAIN m.tags : m.tags[j] = tags[1][k]
        ByPriority(m) == priority = Absent \/ m.priority = priority[1]
        ByFrom(m) == date_from \in {Absent, Some(EmptyDate)} \/ m.timestamp >= date_from[1]
        ByTo(m) == date_to \in {Absent, Some(EmptyDate)} \/ m.timestamp <= date_to[1]
    IN SelectSeq(SelectSeq(SelectSeq(SelectSeq(SelectSeq(memories,
            ByAgent), ByTags), ByPriority), ByFrom), ByTo)

\* filter_memories: a filter that is None or empty (falsy) is skipped; agent
\* by equality, every asked tag among the entry's tags, priority by equality,
\* timestamp >= date_from, timestamp <= date_to
filter_memories(memories, agent_filter, tags, priority, date_from, date_to) ==
    LET ByAgent(m) == agent_filter \in {Absent, Some(<<>>)} \/ m.agent_name = agent_filter[1]
        ByTags(m) == tags \in {Absent, Some(<<>>)} \/
                     \A k \in DOMAIN tags[1] : \E j \in DOMAIN m.tags : m.tags[j] = tags[1][k]
        ByPriority(m) == priority = Absent \/ m.priority = priority[1]
        ByFrom(m) == date_from \in {Absent, Some(EmptyDate)} \/ m.timestamp >= date_from[1]
        ByTo(m) == date_to \in {Absent, Some(EmptyDate)} \/ m.timestamp <= date_to[1]
    IN SelectSeq(SelectSeq(SelectSeq(SelectSeq(SelectSeq(memories,
            ByAgent), ByTags), ByPriority), ByFrom), ByTo)

\* pattern in text
Contains(text, pattern) ==
    \E i \in 1..(Len(text) - Len(pattern) + 1) :
        SubSeq(text, i, i + Len(pattern) - 1) = pattern

\* a search that looks at the content only
SearchContentOnly(memories, query, case_sensitive) ==
    LET Fold(t) == IF case_sensitive THEN t ELSE lower(t)
        Hit(m) == Contains(Fold(m.content), Fold(query))
    IN IF query = <<>> THEN memories ELSE SelectSeq(memories, Hit)

\* search_memories: the entries whose content, agent name or one of whose
\* tags contains the query, lower-cased on both sides unless case_sensitive
search_memories(memories, query, case_sensitive) ==
    LET Fold(t) == IF case_sensitive THEN t ELSE lower(t)
        Hit(m) == \/ Contains(Fold(m.content), Fold(query))
                  \/ Contains(Fold(m.agent_name), Fold(query))
                  \/ \E j \in DOMAIN m.tags : Contains(Fold(m.tags[j]), Fold(query))
    IN IF query = <<>> THEN memories ELSE SelectSeq(memories, Hit)

\* a priority sort that is not stable: equal ranks come out in reverse
SortUnstable(memories, sort_order) ==
    CASE sort_order = "reverse" -> Reversed(memories)
      [] sort_order = "priority" -> StableByRank(Reversed(memories))
      [] OTHER -> memories

\* sort_memories: reversed, sorted by rank (sorted() is stable), or as given
sort_memories(memories, sort_order) ==
    CASE sort_order = "reverse" -> Reversed(memories)
      [] sort_order = "priority" -> StableByRank(memories)
      [] OTHER -> memories

\* ------------------------------------------------------------ caller state
NoParams == [entry_id |-> 0]
NoEntry == [entry_id |-> None]

InitLocal ==
    [pc |-> "idle", op |-> "none", phase |-> "none",
     file_handle |-> 0, elapsed |-> 0, current_retry_delay |-> 0, buf |-> NoFile,
     tmp_handle |-> 0, awFrom |-> "none", content |-> NoFile,
     memories |-> <<>>, created_at |-> None, exc |-> "none",
     errLoad |-> "none", errSave |-> "none", result |-> "none",
     entry_id |-> 0, entry_number |-> 0, stamp |-> 0, snap |-> NoFile,
     params |-> NoParams, entry |-> NoEntry, out |-> <<>>, failed |-> FALSE,
     shown |-> None]

\* a call that has returned keeps only what it returned
Returned(s, r) ==
    [InitLocal EXCEPT !.pc = "done", !.op = s.op, !.result = r,
                      !.errLoad = s.errLoad, !.errSave = s.errSave,
                      !.entry_id = s.entry_id, !.entry_number = s.entry_number,
                      !.elapsed = s.elapsed, !.content = s.content,
                      !.params = s.params, !.entry = s.entry, !.out = s.out,
                      !.shown = s.shown]

\* ------------------------------------------------------------ atomic_write
\* where atomic_write returns to: ensure_storage_structure, save_memories or a test
AwDone(s) ==
    CASE s.awFrom = "ensure" -> [s EXCEPT !.pc = "fl_open", !.awFrom = "none", !.content = NoFile]
      [] s.awFrom = "save" ->
            Returned([s EXCEPT !.entry_number =
                                 IF s.op = "clear" THEN s.entry_number ELSE Len(s.memories)],
                     "ok")
      [] OTHER -> Returned(s, "ok")

\* a handler without its except clause: the exception of atomic_write leaves
\* the tool function
AwEscapes(s) == [Returned(s, "raised") EXCEPT !.exc = "OSError"]

\* the exception of atomic_write leaves ensure_storage_structure / save_memories
\* (logged and re-raised) and is turned into a failure response by the handler
\* health_check keeps the exception of its first ensure_storage_structure as a
\* failed check and goes on to its file_lock check; one from inside its
\* load_memories ends the json_parsing check, the last one that can fail
AwRaised(s) ==
    IF s.op = "health"
    THEN IF s.phase = "health"
         THEN [s EXCEPT !.pc = "fl_open", !.awFrom = "none", !.content = NoFile,
                        !.failed = TRUE]
         ELSE Returned(s, "unhealthy")
    ELSE Returned(s, "io_error")

\* a writer that opens the target itself instead of the temporary sibling
AW_OpenInPlace(p) ==
    /\ st[p].pc = "aw_open"
    /\ LET t == pathIno[MEMORY_FILE]
           i == IF t = 0 THEN NewInode ELSE t
       IN /\ pathIno' = [pathIno EXCEPT ![MEMORY_FILE] = i]
          /\ data' = [data EXCEPT ![i] = Empty]
          /\ st' = [st EXCEPT ![p] = [@ EXCEPT !.pc = "aw_write", !.tmp_handle = i]]
    /\ UNCHANGED <<flock, backups, now, nextId, faults>>

AW_Open(p) ==
    /\ st[p].pc = "aw_open"
    /\ LET t == pathIno[temp_path]
           i == IF t = 0 THEN NewInode ELSE t
       IN /\ pathIno' = [pathIno EXCEPT ![temp_path] = i]
          /\ data' = [data EXCEPT ![i] = Empty]
          /\ st' = [st EXCEPT ![p] = [@ EXCEPT !.pc = "aw_write", !.tmp_handle = i]]
    /\ UNCHANGED <<flock, backups, now, nextId, faults>>

\* f.write of a content larger than the buffer reaches the file before flush
AW_WriteChunk(p) ==
    /\ st[p].pc = "aw_write"
    /\ data' = [data EXCEPT ![st[p].tmp_handle] = Partial]
    /\ st' = [st EXCEPT ![p] = [@ EXCEPT !.pc = "aw_flush"]]
    /\ UNCHANGED <<pathIno, flock, backups, now, nextId, faults>>

AW_Flush(p) ==
    /\ st[p].pc \in {"aw_write", "aw_flush"}
    /\ data' = [data EXCEPT ![st[p].tmp_handle] = st[p].content]
    /\ st' = [st EXCEPT ![p] = [@ EXCEPT !.pc = "aw_replace", !.tmp_handle = 0]]
    /\ UNCHANGED <<pathIno, flock, backups, now, nextId, faults>>

\* write, flush or fsync raises OSError: the with block closes the file
AW_WriteFail(p) ==
    /\ st[p].pc \in {"aw_write", "aw_flush"}
    /\ faults < MaxFaults
    /\ faults' = faults + 1
    /\ st' = [st EXCEPT ![p] = [@ EXCEPT !.pc = "aw_cleanup", !.tmp_handle = 0]]
    /\ UNCHANGED <<pathIno, data, flock, backups, now, nextId>>

AW_Replace(p) ==
    /\ st[p].pc = "aw_replace"
    /\ IF pathIno[temp_path] = 0
       THEN \* FileNotFoundError
            /\ st' = [st EXCEPT ![p] = [@ EXCEPT !.pc = "aw_cleanup"]]
            /\ UNCHANGED pathIno
       ELSE /\ pathIno' = [pathIno EXCEPT ![MEMORY_FILE] = pathIno[temp_path],
                                          ![temp_path] = 0]
            /\ st' = [st EXCEPT ![p] = AwDone(st[p])]
    /\ data' = Collect(data, pathIno', st')
    /\ UNCHANGED <<flock, backups, now, nextId, faults>>

\* except Exception: if temp_path.exists(): temp_path.unlink(); raise
AW_Cleanup(p) ==
    /\ st[p].pc = "aw_cleanup"
    /\ pathIno' = [pathIno EXCEPT ![temp_path] = 0]
    /\ st' = [st EXCEPT ![p] = AwRaised(st[p])]
    /\ data' = Collect(data, pathIno', st')
    /\ UNCHANGED <<flock, backups, now, nextId, faults>>

\* test_atomic_write_*: a writer calls atomic_write(file_path, its document)
StartWrite(p) ==
    /\ st[p].pc = "idle"
    /\ st' = [st EXCEPT ![p] = [@ EXCEPT !.pc = "aw_open", !.op = "atomic_write",
                                         !.awFrom = "test", !.content = Doc(p)]]
    /\ UNCHANGED <<pathIno, data, flock, backups, now, nextId, faults>>

InitFS(target) ==
    /\ pathIno = [q \in Paths |-> IF q = MEMORY_FILE /\ target # NoFile THEN 1 ELSE 0]
    /\ data = [i \in Inodes |-> IF i = 1 /\ target # NoFile THEN target ELSE Empty]
    /\ flock = [i \in Inodes |-> 0]
    /\ backups = [t \in Times |-> NoFile]
    /\ now = 0
    /\ faults = 0
    /\ st = [p \in Procs |-> InitLocal]

\* the target is absent or holds a previous document
InitAW ==
    /\ \E target \in {NoFile, Doc(0)} : InitFS(target)
    /\ nextId = 0

NextAW ==
    \/ \E p \in Procs : StartWrite(p)
    \/ \E p \in Procs : AW_Open(p)
    \/ \E p \in Procs : AW_WriteChunk(p)
    \/ \E p \in Procs : AW_Flush(p)
    \/ \E p \in Procs : AW_WriteFail(p)
    \/ \E p \in Procs : AW_Replace(p)
    \/ \E p \in Procs : AW_Cleanup(p)

SpecAW == InitAW /\ [][NextAW]_vars

\* --------------------------------------------------------------- file_lock
\* fcntl.flock(LOCK_EX | LOCK_NB) succeeds iff no other open file holds the inode
LockFreeAlways(i) == TRUE
LockFree(i) == flock[i] = 0

\* a backoff that doubles without the cap
NextDelayUncapped(d) == d * 2

\* current_retry_delay = min(current_retry_delay * 2, max_retry_delay)
NextDelay(d) == Min(d * 2, MAX_RETRY_DELAY)

\* if elapsed >= timeout: raise FileLockTimeout
TimedOut(e) == e >= TIMEOUT

\* time.time() - start_time at a failed attempt: at least the time slept so far;
\* the caller may also have been kept off the processor until the deadline
ElapsedNow(s) == {s.elapsed, Max(s.elapsed, TIMEOUT)}

\* fcntl.flock(LOCK_UN) of the handle; closing the handle drops its lock as well
\* a release that runs on normal exit only (an else clause instead of finally)
UnlockedOnSuccess(p, i) ==
    IF i # 0 /\ flock[i] = p /\ st[p].exc = "none" THEN [flock EXCEPT ![i] = 0] ELSE flock
Unlocked(p, i) == IF i # 0 /\ flock[i] = p THEN [flock EXCEPT ![i] = 0] ELSE flock

HoldsLock(p) == st[p].file_handle # 0 /\ flock[st[p].file_handle] = p
InScope(p) == st[p].pc \in {"fl_body", "t_rewrite"}

\* where the with statement leaves to once the finally clause has run
AfterLock(s) ==
    CASE s.phase = "load" ->
            IF s.exc = "FileLockTimeout"
            THEN \* load_memories: except FileLockTimeout: raise
                 Returned([s EXCEPT !.errLoad = s.exc],
                          IF s.op = "health" THEN "unhealthy" ELSE "lock_timeout")
            ELSE IF s.exc = "FileLockError"
            THEN \* load_memories: except Exception: return []
                 [s EXCEPT !.pc = "loaded", !.errLoad = s.exc, !.exc = "none",
                           !.memories = <<>>, !.file_handle = 0]
            ELSE [s EXCEPT !.pc = "loaded", !.file_handle = 0]
      [] s.phase = "health" ->
            \* health_check: the file_locking check is recorded, load_memories next
            [s EXCEPT !.pc = "es_check", !.phase = "load", !.exc = "none",
                      !.file_handle = 0, !.failed = s.failed \/ s.exc # "none"]
      [] s.phase = "save" ->
            \* save_memories: except Exception: pass
            [s EXCEPT !.pc = "cb_read", !.errSave = s.exc, !.exc = "none",
                      !.file_handle = 0,
                      !.created_at = IF s.created_at = None THEN now ELSE s.created_at]
      [] OTHER ->
            Returned(s, IF s.exc = "none" THEN "ok" ELSE s.exc)

\* mkdir, touch if absent, open(file_path, 'r+')
FL_Open(p) ==
    /\ st[p].pc = "fl_open"
    /\ LET t == pathIno[MEMORY_FILE]
           i == IF t = 0 THEN NewInode ELSE t
       IN /\ pathIno' = [pathIno EXCEPT ![MEMORY_FILE] = i]
          /\ data' = IF t = 0 THEN [data EXCEPT ![i] = Empty] ELSE data
          /\ st' = [st EXCEPT ![p] = [@ EXCEPT !.pc = "fl_try", !.file_handle = i,
                                               !.elapsed = 0,
                                               !.current_retry_delay = RETRY_DELAY]]
    /\ UNCHANGED <<flock, backups, now, nextId, faults>>

\* mkdir, touch or open raises: except Exception -> FileLockError, no handle to close
FL_OpenFail(p) ==
    /\ st[p].pc = "fl_open"
    /\ faults < MaxFaults
    /\ faults' = faults + 1
    /\ st' = [st EXCEPT ![p] = AfterLock([@ EXCEPT !.exc = "FileLockError"])]
    /\ UNCHANGED <<pathIno, data, flock, backups, now, nextId>>

\* the non-blocking flock succeeds: break, yield file_handle
FL_Acquire(p) ==
    /\ st[p].pc = "fl_try"
    /\ LockFree(st[p].file_handle)
    /\ flock' = [flock EXCEPT ![st[p].file_handle] = p]
    /\ st' = [st EXCEPT ![p] = [@ EXCEPT !.pc = "fl_body"]]
    /\ UNCHANGED <<pathIno, data, backups, now, nextId, faults>>

\* the attempt fails before the deadline: sleep, double the delay
FL_Retry(p) ==
    /\ st[p].pc = "fl_try"
    /\ ~LockFree(st[p].file_handle)
    /\ \E e \in ElapsedNow(st[p]) :
          /\ ~TimedOut(e)
          /\ st' = [st EXCEPT ![p] =
                      [@ EXCEPT !.elapsed = e + st[p].current_retry_delay,
                                !.current_retry_delay = NextDelay(@)]]
    /\ UNCHANGED <<pathIno, data, flock, backups, now, nextId, faults>>

\* the attempt fails at or after the deadline: raise FileLockTimeout
FL_Timeout(p) ==
    /\ st[p].pc = "fl_try"
    /\ ~LockFree(st[p].file_handle)
    /\ \E e \in ElapsedNow(st[p]) :
          /\ TimedOut(e)
          /\ st' = [st EXCEPT ![p] = [@ EXCEPT !.pc = "fl_unlock", !.elapsed = e,
                                               !.exc = "FileLockTimeout"]]
    /\ UNCHANGED <<pathIno, data, flock, backups, now, nextId, faults>>

\* finally: flock(LOCK_UN) ...
FL_Unlock(p) ==
    /\ st[p].pc = "fl_unlock"
    /\ flock' = Unlocked(p, st[p].file_handle)
    /\ st' = [st EXCEPT ![p] = [@ EXCEPT !.pc = "fl_close"]]
    /\ UNCHANGED <<pathIno, data, backups, now, nextId, faults>>

\* ... then file_handle.close(), which flushes what the body wrote to the handle
FL_Close(p) ==
    /\ st[p].pc = "fl_close"
    /\ flock' = Unlocked(p, st[p].file_handle)
    /\ st' = [st EXCEPT ![p] = AfterLock([@ EXCEPT !.buf = NoFile])]
    /\ data' = Collect(IF st[p].buf # NoFile
                       THEN [data EXCEPT ![st[p].file_handle] = st[p].buf]
                       ELSE data, pathIno, st')
    /\ UNCHANGED <<pathIno, backups, now, nextId, faults>>

\* ------------------------------------------- callers of file_lock in the tests
\* json.load(f) of the tests: the entries of a container, or a decode error
Parses(c) == c.kind = "container"

\* test_concurrent_reads / writes, test_file_lock_exclusive: with file_lock(...) as f
StartLocked(p, kind) ==
    /\ st[p].pc = "idle"
    /\ st' = [st EXCEPT ![p] = [@ EXCEPT !.pc = "fl_open", !.op = kind, !.phase = "test"]]
    /\ UNCHANGED <<pathIno, data, flock, backups, now, nextId, faults>>

\* read_count / add_entry: f.seek(0); data = json.load(f)
T_Load(p) ==
    /\ st[p].pc = "fl_body"
    /\ st[p].op \in {"lock_read", "lock_write"}
    /\ LET c == data[st[p].file_handle] IN
       st' = [st EXCEPT ![p] =
                IF ~Parses(c)
                THEN \* JSONDecodeError inside the scope, re-raised as FileLockError
                     [@ EXCEPT !.pc = "fl_unlock", !.exc = "FileLockError"]
                ELSE [@ EXCEPT !.pc = IF st[p].op = "lock_write" THEN "t_rewrite" ELSE "fl_unlock",
                               !.memories = c.entries, !.created_at = c.created_at,
                               !.entry_number = Len(c.entries)]]
    /\ UNCHANGED <<pathIno, data, flock, backups, now, nextId, faults>>

\* add_entry: append; f.seek(0); f.truncate(); json.dump(data, f): the file is cut
\* at once, the new text stays in the handle's buffer until flush or close
T_Rewrite(p) ==
    /\ st[p].pc = "t_rewrite"
    /\ data' = [data EXCEPT ![st[p].file_handle] = Empty]
    /\ st' = [st EXCEPT ![p] =
                [@ EXCEPT !.pc = "fl_unlock", !.entry_id = p,
                          !.buf = Container(Append(st[p].memories, [entry_id |-> p]),
                                           st[p].created_at)]]
    /\ UNCHANGED <<pathIno, flock, backups, now, nextId, faults>>

\* acquire_lock / hold_lock_forever: the body ends normally (or returns)
T_Hold(p) ==
    /\ st[p].pc = "fl_body"
    /\ st[p].op = "lock_hold"
    /\ st' = [st EXCEPT ![p] = [@ EXCEPT !.pc = "fl_unlock"]]
    /\ UNCHANGED <<pathIno, data, flock, backups, now, nextId, faults>>

\* the body raises: thrown into the generator at the yield, caught by
\* except Exception and re-raised as FileLockError
T_Raise(p) ==
    /\ st[p].pc = "fl_body"
    /\ st[p].op = "lock_hold"
    /\ st' = [st EXCEPT ![p] = [@ EXCEPT !.pc = "fl_unlock", !.exc = "FileLockError"]]
    /\ UNCHANGED <<pathIno, data, flock, backups, now, nextId, faults>>

\* the fixture of the tests: the file exists and holds a container without entries
InitLock ==
    /\ InitFS(Container(<<>>, 0))
    /\ nextId = 0

NextLock ==
    \/ \E p \in Procs : \E kind \in {"lock_read", "lock_write", "lock_hold"} : StartLocked(p, kind)
    \/ \E p \in Procs : FL_Open(p)
    \/ \E p \in Procs : FL_OpenFail(p)
    \/ \E p \in Procs : FL_Acquire(p)
    \/ \E p \in Procs : FL_Retry(p)
    \/ \E p \in Procs : FL_Timeout(p)
    \/ \E p \in Procs : FL_Unlock(p)
    \/ \E p \in Procs : FL_Close(p)
    \/ \E p \in Procs : T_Load(p)
    \/ \E p \in Procs : T_Rewrite(p)
    \/ \E p \in Procs : T_Hold(p)
    \/ \E p \in Procs : T_Raise(p)

SpecLock == InitLock /\ [][NextLock]_vars

\* ------------------------------------------------------ shared_memory_mcp.py
\* a rotation that keeps the head of the list: memories[:MAX_ENTRIES]
RotateKeepOldest(m) ==
    IF Len(m) > MAX_ENTRIES THEN SubSeq(m, 1, MAX_ENTRIES) ELSE m
\* memories[-MAX_ENTRIES:] when len(memories) > MAX_ENTRIES
Rotate(m) ==
    IF Len(m) > MAX_ENTRIES THEN SubSeq(m, Len(m) - MAX_ENTRIES + 1, Len(m)) ELSE m

BackupNames(b) == {t \in DOMAIN b : b[t] # NoFile}

\* a pruning that unlinks backups[keep:], the newest ones
CleanupKeepsOldest(b) ==
    [t \in DOMAIN b |->
        IF Cardinality({u \in BackupNames(b) : u < t}) >= KEEP THEN NoFile ELSE b[t]]

\* backups = sorted(glob); for backup_file in backups[:-keep]: unlink
CleanupOldBackups(b) ==
    [t \in DOMAIN b |->
        IF Cardinality({u \in BackupNames(b) : u > t}) >= KEEP THEN NoFile ELSE b[t]]

\* sorted(BACKUP_DIR.glob("memory_backup_*.json"))
RECURSIVE Sorted(_)
Sorted(S) ==
    IF S = {} THEN <<>>
    ELSE LET m == CHOOSE x \in S : \A y \in S : x <= y IN <<m>> \o Sorted(S \ {m})

\* one pass of the loop of recover_from_backup: json.load(f), then a list is
\* returned as it is and a dict with "entries" gives its entries; any other
\* value, and any exception, moves on to the next file
SnapshotEntries(c) ==
    CASE c.kind = "legacy" -> Some(c.entries)
      [] c.kind = "container" -> Some(c.entries)
      [] OTHER -> Absent

\* for backup_file in files, in that order: the first snapshot that gives entries
RECURSIVE FirstRecovered(_, _)
FirstRecovered(b, files) ==
    IF files = <<>> THEN Absent
    ELSE IF SnapshotEntries(b[Head(files)]) # Absent THEN SnapshotEntries(b[Head(files)])
    ELSE FirstRecovered(b, Tail(files))

\* the loop without reversed(): oldest snapshot first
RecoverFromBackupOldestFirst(b) == FirstRecovered(b, Sorted(BackupNames(b)))
\* recover_from_backup: for backup_file in reversed(backups); None is Absent
RecoverFromBackup(b) == FirstRecovered(b, Reversed(Sorted(BackupNames(b))))

\* load_memories, the body of the lock scope: what it returns for a content
ParseLoad(c) ==
    CASE c.kind = "empty" -> <<>>
      [] c.kind = "container" -> c.entries
      [] c.kind = "legacy" -> c.entries
      [] c.kind \in {"other", "doc"} -> <<>>
      [] OTHER -> \* json.JSONDecodeError
            IF RecoverFromBackup(backups) # Absent
            THEN RecoverFromBackup(backups)[1] ELSE <<>>

\* the container save_memories writes
SaveContent(s) == Container(Rotate(s.memories), s.created_at)

\* ------------------------------------------------------------ tool inputs
\* n words separated by single blanks
Words(n) == [i \in 1..(2 * n - 1) |-> IF i % 2 = 1 THEN "a" ELSE " "]

AddDefault ==
    [agent_name |-> <<"a">>, content |-> <<"a">>, tags |-> <<>>,
     priority |-> "medium", metadata |-> {}]

\* the plain input, one with surrounding and repeated whitespace, upper case
\* and blank tags, one with a word too many, one that is blank
AddInputs ==
    {AddDefault,
     [agent_name |-> <<" ", "A">>, content |-> <<" ", "a", " ", " ", "A", " ">>,
      tags |-> << <<" ", "A">>, <<" ">> >>, priority |-> "high",
      metadata |-> {<<"k", 1>>}],
     [AddDefault EXCEPT !.content = Words(MAX_WORDS_PER_ENTRY + 1)],
     [AddDefault EXCEPT !.content = <<" ">>]}

\* ids the callers ask for: the oldest initial entry, the first entry added
TargetIds == {1, MAX_ENTRIES + 1}

\* an entry_id that is no UUID
InvalidId == 0

UpdateNothing(id) ==
    [entry_id |-> id, content |-> Absent, tags |-> Absent, priority |-> Absent,
     metadata |-> Absent]
UpdateDefault == [UpdateNothing(1) EXCEPT !.content = Some(<<"A", " ", "a", " ">>)]

\* one tag more than add_memory accepts
ManyTags == [i \in 1..(MAX_TAGS + 1) |-> <<"a">>]

UpdateInputs ==
    {[UpdateNothing(1) EXCEPT !.tags = Some(ManyTags)], UpdateNothing(InvalidId)} \cup
    UNION {{[UpdateNothing(id) EXCEPT !.content = Some(<<"A", " ", "a", " ">>)],
            [UpdateNothing(id) EXCEPT !.tags = Some(<< <<"A", " ">>, <<" ">> >>),
                                      !.priority = Some("low"),
                                      !.metadata = Some({<<"k", 2>>})],
            UpdateNothing(id),
            [UpdateNothing(id) EXCEPT !.content = Some(Words(MAX_WORDS_PER_ENTRY + 1))]}
           : id \in TargetIds}

IdInputs == {[entry_id |-> id] : id \in TargetIds \cup {InvalidId}}

ReadDefault ==
    [sort_order |-> "chronological", limit |-> Absent, agent_filter |-> Absent,
     tags |-> Absent, priority |-> Absent]

\* every sort order with and without a limit, and one input per filter
ReadInputs ==
    {[ReadDefault EXCEPT !.sort_order = o, !.limit = l] :
        o \in {"chronological", "reverse", "priority"}, l \in {Absent, Some(1)}}
    \cup {[ReadDefault EXCEPT !.agent_filter = Some(<<"a">>)],
          [ReadDefault EXCEPT !.tags = Some(<< <<"a">> >>)],
          [ReadDefault EXCEPT !.priority = Some("high"), !.sort_order = "reverse"]}

SearchInputs ==
    {[query |-> <<"a">>, case_sensitive |-> FALSE, limit |-> Absent],
     [query |-> <<"A">>, case_sensitive |-> TRUE, limit |-> Some(1)],
     [query |-> <<"a">>, case_sensitive |-> FALSE, limit |-> Some(1)]}

\* ------------------------------------------------------------ tool handlers
\* add_memory(params): pydantic builds AddMemoryInput before the handler runs
add_memory(p, raw) ==
    /\ st[p].pc = "idle"
    /\ st' = [st EXCEPT ![p] =
                IF AddMemoryInputAccepts(raw)
                THEN [@ EXCEPT !.pc = "es_check", !.op = "add", !.phase = "load",
                               !.params = AddMemoryInput(raw)]
                ELSE Returned([@ EXCEPT !.op = "add", !.params = raw], "validation_error")]
    /\ UNCHANGED <<pathIno, data, flock, backups, now, nextId, faults>>

read_memory(p, raw) ==
    /\ st[p].pc = "idle"
    /\ st' = [st EXCEPT ![p] = [@ EXCEPT !.pc = "es_check", !.op = "read", !.phase = "load",
                                         !.params = raw]]
    /\ UNCHANGED <<pathIno, data, flock, backups, now, nextId, faults>>

\* update_memory(params): validation, then validate_entry_id, then the load
update_memory(p, raw) ==
    /\ st[p].pc = "idle"
    /\ st' = [st EXCEPT ![p] =
                IF ~UpdateMemoryInputAccepts(raw)
                THEN Returned([@ EXCEPT !.op = "update", !.params = raw], "validation_error")
                ELSE IF ~validate_entry_id(raw.entry_id)
                THEN Returned([@ EXCEPT !.op = "update", !.params = raw], "invalid_id")
                ELSE [@ EXCEPT !.pc = "es_check", !.op = "update", !.phase = "load",
                               !.params = UpdateMemoryInput(raw)]]
    /\ UNCHANGED <<pathIno, data, flock, backups, now, nextId, faults>>

delete_memory(p, raw) ==
    /\ st[p].pc = "idle"
    /\ st' = [st EXCEPT ![p] =
                IF ~validate_entry_id(raw.entry_id)
                THEN Returned([@ EXCEPT !.op = "delete", !.params = raw], "invalid_id")
                ELSE [@ EXCEPT !.pc = "es_check", !.op = "delete", !.phase = "load",
                               !.params = raw]]
    /\ UNCHANGED <<pathIno, data, flock, backups, now, nextId, faults>>

get_memory(p, raw) ==
    /\ st[p].pc = "idle"
    /\ st' = [st EXCEPT ![p] =
                IF ~validate_entry_id(raw.entry_id)
                THEN Returned([@ EXCEPT !.op = "get", !.params = raw], "invalid_id")
                ELSE [@ EXCEPT !.pc = "es_check", !.op = "get", !.phase = "load",
                               !.params = raw]]
    /\ UNCHANGED <<pathIno, data, flock, backups, now, nextId, faults>>

search_memory(p, raw) ==
    /\ st[p].pc = "idle"
    /\ st' = [st EXCEPT ![p] = [@ EXCEPT !.pc = "es_check", !.op = "search",
                                         !.phase = "load", !.params = raw]]
    /\ UNCHANGED <<pathIno, data, flock, backups, now, nextId, faults>>

\* clear_memory(params): if not params.confirm: return the refusal
clear_memory(p, confirm) ==
    /\ st[p].pc = "idle"
    /\ st' = [st EXCEPT ![p] =
                IF ~confirm
                THEN Returned([@ EXCEPT !.op = "clear"], "not_confirmed")
                ELSE [@ EXCEPT !.pc = "es_check", !.op = "clear", !.phase = "load"]]
    /\ UNCHANGED <<pathIno, data, flock, backups, now, nextId, faults>>

\* get_memory_stats: load_memories, then the statistics
get_memory_stats(p) ==
    /\ st[p].pc = "idle"
    /\ st' = [st EXCEPT ![p] = [@ EXCEPT !.pc = "es_check", !.op = "stats",
                                         !.phase = "load"]]
    /\ UNCHANGED <<pathIno, data, flock, backups, now, nextId, faults>>

\* health_check: ensure_storage_structure, then a file_lock with an empty
\* body, then load_memories, then the listing of the backups
health_check(p) ==
    /\ st[p].pc = "idle"
    /\ st' = [st EXCEPT ![p] = [@ EXCEPT !.pc = "es_check", !.op = "health",
                                         !.phase = "health"]]
    /\ UNCHANGED <<pathIno, data, flock, backups, now, nextId, faults>>

\* the calls of the concurrent workload
StartAdd(p) == add_memory(p, AddDefault)
StartRead(p) == read_memory(p, ReadDefault)
StartUpdate(p) == update_memory(p, UpdateDefault)
StartDelete(p) == delete_memory(p, [entry_id |-> 1])
StartClear(p) == clear_memory(p, TRUE)

\* the calls of the sequential workload: one call at a time, any input
Solo(p) == \A q \in Procs \ {p} : st[q].pc \in {"idle", "done"}
SeqAdd(p) == Solo(p) /\ \E raw \in AddInputs : add_memory(p, raw)
SeqRead(p) == Solo(p) /\ \E raw \in ReadInputs : read_memory(p, raw)
SeqUpdate(p) == Solo(p) /\ \E raw \in UpdateInputs : update_memory(p, raw)
SeqDelete(p) == Solo(p) /\ \E raw \in IdInputs : delete_memory(p, raw)
SeqGet(p) == Solo(p) /\ \E raw \in IdInputs : get_memory(p, raw)
SeqSearch(p) == Solo(p) /\ \E raw \in SearchInputs : search_memory(p, raw)
SeqClear(p) == Solo(p) /\ \E confirm \in BOOLEAN : clear_memory(p, confirm)

\* ensure_storage_structure: if not MEMORY_FILE.exists(): atomic_write(initial)
ES_Check(p) ==
    /\ st[p].pc = "es_check"
    /\ st' = [st EXCEPT ![p] =
                IF pathIno[MEMORY_FILE] # 0
                THEN [@ EXCEPT !.pc = "fl_open"]
                ELSE [@ EXCEPT !.pc = "aw_open", !.awFrom = "ensure",
                               !.content = Container(<<>>, now)]]
    /\ UNCHANGED <<pathIno, data, flock, backups, now, nextId, faults>>

\* load_memories inside the lock: content = f.read(), parse, return
LoadRead(p) ==
    /\ st[p].pc = "fl_body"
    /\ st[p].phase = "load"
    /\ st' = [st EXCEPT ![p] = [@ EXCEPT !.pc = "fl_unlock",
                                         !.memories = ParseLoad(data[st[p].file_handle])]]
    /\ UNCHANGED <<pathIno, data, flock, backups, now, nextId, faults>>

\* health_check inside the lock: pass
HealthBody(p) ==
    /\ st[p].pc = "fl_body"
    /\ st[p].phase = "health"
    /\ st' = [st EXCEPT ![p] = [@ EXCEPT !.pc = "fl_unlock"]]
    /\ UNCHANGED <<pathIno, data, flock, backups, now, nextId, faults>>

\* f.read() raises OSError inside the scope: file_lock re-raises it as FileLockError
LoadReadFail(p) ==
    /\ st[p].pc = "fl_body"
    /\ st[p].phase = "load"
    /\ faults < MaxFaults
    /\ faults' = faults + 1
    /\ st' = [st EXCEPT ![p] = [@ EXCEPT !.pc = "fl_unlock", !.exc = "FileLockError"]]
    /\ UNCHANGED <<pathIno, data, flock, backups, now, nextId>>

\* add_memory after the load: new entry, memories.append(entry), save_memories(memories)
\* an add that takes the id of the newest entry again instead of a fresh uuid4
AddAppendStaleId(p) ==
    /\ st[p].pc = "loaded"
    /\ st[p].op = "add"
    /\ nextId' = nextId + 1
    /\ LET id == IF st[p].memories = <<>> THEN nextId
                 ELSE st[p].memories[Len(st[p].memories)].entry_id
           entry == NewEntry(st[p].params, id, now)
       IN st' = [st EXCEPT ![p] = [@ EXCEPT !.pc = "es_check", !.phase = "save",
                                            !.entry_id = id, !.entry = entry,
                                            !.memories = Append(@, entry)]]
    /\ UNCHANGED <<pathIno, data, flock, backups, now, faults>>

AddAppend(p) ==
    /\ st[p].pc = "loaded"
    /\ st[p].op = "add"
    /\ nextId' = nextId + 1
    /\ LET entry == NewEntry(st[p].params, nextId, now)
       IN st' = [st EXCEPT ![p] = [@ EXCEPT !.pc = "es_check", !.phase = "save",
                                            !.entry_id = nextId, !.entry = entry,
                                            !.memories = Append(@, entry)]]
    /\ UNCHANGED <<pathIno, data, flock, backups, now, faults>>

\* if params.limit and len(memories) > params.limit: the last ones in
\* chronological order, the first ones otherwise
Limited(memories, params) ==
    IF params.limit # Absent /\ Len(memories) > params.limit[1]
    THEN IF params.sort_order = "chronological"
         THEN SubSeq(memories, Len(memories) - params.limit[1] + 1, Len(memories))
         ELSE SubSeq(memories, 1, params.limit[1])
    ELSE memories

\* len(format_memories_as_markdown(memories)), len(format_memories_as_json(
\* memories)): the text carries, entry by entry, a frame and the content
RECURSIVE FormatLen(_)
FormatLen(memories) ==
    IF memories = <<>> THEN 0
    ELSE 1 + Len(Head(memories).content) + FormatLen(Tail(memories))

\* memories[-truncated_count:] where truncated_count = len(memories) // 2: the
\* slice [-0:] is the whole list
LastHalf(memories) ==
    LET truncated_count == Len(memories) \div 2
    IN IF truncated_count = 0 THEN memories
       ELSE SubSeq(memories, Len(memories) - truncated_count + 1, Len(memories))

\* read_memory after the load: filter, sort, limit, format, cut to the half
\* with a notice "Showing {truncated_count} of {total_count}" when the text is
\* over CHARACTER_LIMIT, and return
ReadReturn(p) ==
    /\ st[p].pc = "loaded"
    /\ st[p].op = "read"
    /\ LET params == st[p].params
           total_count == Len(st[p].memories)
           filtered == filter_memories(st[p].memories, params.agent_filter,
                                       params.tags, params.priority, Absent, Absent)
           memories == Limited(sort_memories(filtered, params.sort_order), params)
           truncated == FormatLen(memories) > CHARACTER_LIMIT
       IN st' = [st EXCEPT ![p] =
                   Returned([@ EXCEPT !.entry_number = total_count,
                                      !.out = IF truncated THEN LastHalf(memories)
                                              ELSE memories,
                                      !.shown = IF truncated THEN Len(memories) \div 2
                                                ELSE None], "ok")]
    /\ UNCHANGED <<pathIno, data, flock, backups, now, nextId, faults>>

\* search_memory after the load: search, the first limit results, format, return
SearchReturn(p) ==
    /\ st[p].pc = "loaded"
    /\ st[p].op = "search"
    /\ LET params == st[p].params
           results == search_memories(st[p].memories, params.query, params.case_sensitive)
           limited == IF params.limit # Absent /\ Len(results) > params.limit[1]
                      THEN SubSeq(results, 1, params.limit[1])
                      ELSE results
       \* "total_results": len(results), "Total entries: {len(memories)}": both
       \* count the list after the limit was applied
       IN st' = [st EXCEPT ![p] =
                   Returned([@ EXCEPT !.entry_number = Len(limited),
                                      !.out = limited], "ok")]
    /\ UNCHANGED <<pathIno, data, flock, backups, now, nextId, faults>>

\* get_memory after the load: find_entry_by_id, not found or the entry
GetReturn(p) ==
    /\ st[p].pc = "loaded"
    /\ st[p].op = "get"
    /\ LET i == find_entry_by_id(st[p].memories, st[p].params.entry_id)
       IN st' = [st EXCEPT ![p] =
                   IF i = 0 THEN Returned(@, "not_found")
                   ELSE Returned([@ EXCEPT !.entry = st[p].memories[i]], "ok")]
    /\ UNCHANGED <<pathIno, data, flock, backups, now, nextId, faults>>

\* an update that removes the entry and appends the updated one
UpdateApplyMoveLast(p) ==
    /\ st[p].pc = "loaded"
    /\ st[p].op = "update"
    /\ LET i == find_entry_by_id(st[p].memories, st[p].params.entry_id)
       IN st' = [st EXCEPT ![p] =
                   IF i = 0 THEN Returned(@, "not_found")
                   ELSE [@ EXCEPT !.pc = "es_check", !.phase = "save",
                                  !.entry = UpdateEntry(st[p].memories[i], st[p].params, now),
                                  !.memories = Append(RemoveId(@, st[p].params.entry_id),
                                                      UpdateEntry(st[p].memories[i],
                                                                  st[p].params, now))]]
    /\ UNCHANGED <<pathIno, data, flock, backups, now, nextId, faults>>

\* update_memory after the load: find the entry, set the supplied fields and
\* updated_at in it, save_memories(memories)
UpdateApply(p) ==
    /\ st[p].pc = "loaded"
    /\ st[p].op = "update"
    /\ LET i == find_entry_by_id(st[p].memories, st[p].params.entry_id)
       IN st' = [st EXCEPT ![p] =
                   IF i = 0 THEN Returned(@, "not_found")
                   ELSE [@ EXCEPT !.pc = "es_check", !.phase = "save",
                                  !.entry = UpdateEntry(st[p].memories[i], st[p].params, now),
                                  !.memories = [@ EXCEPT ![i] =
                                                   UpdateEntry(@, st[p].params, now)]]]
    /\ UNCHANGED <<pathIno, data, flock, backups, now, nextId, faults>>

\* delete_memory after the load: find the entry, drop the entries of that id,
\* save_memories(memories)
DeleteApply(p) ==
    /\ st[p].pc = "loaded"
    /\ st[p].op = "delete"
    /\ LET i == find_entry_by_id(st[p].memories, st[p].params.entry_id)
       IN st' = [st EXCEPT ![p] =
                   IF i = 0 THEN Returned(@, "not_found")
                   ELSE [@ EXCEPT !.pc = "es_check", !.phase = "save",
                                  !.entry = st[p].memories[i],
                                  !.memories = RemoveId(@, st[p].params.entry_id)]]
    /\ UNCHANGED <<pathIno, data, flock, backups, now, nextId, faults>>

\* get_memory_stats after the load: total_entries = len(memories)
StatsReturn(p) ==
    /\ st[p].pc = "loaded"
    /\ st[p].op = "stats"
    /\ st' = [st EXCEPT ![p] =
                Returned([@ EXCEPT !.entry_number = Len(st[p].memories)], "ok")]
    /\ UNCHANGED <<pathIno, data, flock, backups, now, nextId, faults>>

\* health_check after the load: success is false when a check has failed
HealthReturn(p) ==
    /\ st[p].pc = "loaded"
    /\ st[p].op = "health"
    /\ st' = [st EXCEPT ![p] =
                Returned([@ EXCEPT !.entry_number = Len(st[p].memories)],
                         IF st[p].failed THEN "unhealthy" ELSE "ok")]
    /\ UNCHANGED <<pathIno, data, flock, backups, now, nextId, faults>>

\* a clear_memory that does not count what it loaded
ClearBackupUncounted(p) ==
    /\ st[p].pc = "loaded"
    /\ st[p].op = "clear"
    /\ st' = [st EXCEPT ![p] = [@ EXCEPT !.pc = "cb_read", !.phase = "clear"]]
    /\ UNCHANGED <<pathIno, data, flock, backups, now, nextId, faults>>

\* clear_memory after the load: count = len(memories), create_backup()
ClearBackup(p) ==
    /\ st[p].pc = "loaded"
    /\ st[p].op = "clear"
    /\ st' = [st EXCEPT ![p] = [@ EXCEPT !.pc = "cb_read", !.phase = "clear",
                                         !.entry_number = Len(st[p].memories)]]
    /\ UNCHANGED <<pathIno, data, flock, backups, now, nextId, faults>>

\* where create_backup returns to: clear_memory goes on to save_memories([]),
\* save_memories goes on to atomic_write
AfterBackup(s) ==
    IF s.phase = "clear"
    THEN [s EXCEPT !.pc = "es_check", !.phase = "save", !.memories = <<>>,
                   !.stamp = 0, !.snap = NoFile]
    ELSE [s EXCEPT !.pc = "aw_open", !.awFrom = "save", !.content = SaveContent(s),
                   !.stamp = 0, !.snap = NoFile]

\* save_memories inside the lock: read the existing created_at
SaveRead(p) ==
    /\ st[p].pc = "fl_body"
    /\ st[p].phase = "save"
    /\ LET c == data[st[p].file_handle] IN
       st' = [st EXCEPT ![p] =
                CASE c.kind = "container" ->
                        [@ EXCEPT !.pc = "fl_unlock", !.created_at = c.created_at]
                  [] c.kind \in {"empty", "legacy", "other", "doc"} ->
                        [@ EXCEPT !.pc = "fl_unlock"]
                  [] OTHER -> \* json.loads raises inside the scope
                        [@ EXCEPT !.pc = "fl_unlock", !.exc = "FileLockError"]]
    /\ UNCHANGED <<pathIno, data, flock, backups, now, nextId, faults>>

\* create_backup: skip when the file is absent or empty, else read it
CB_Read(p) ==
    /\ st[p].pc = "cb_read"
    /\ LET i == pathIno[MEMORY_FILE] IN
       st' = [st EXCEPT ![p] =
                IF i = 0 \/ data[i] = Empty
                THEN AfterBackup(@)
                ELSE [@ EXCEPT !.pc = "cb_write", !.stamp = now, !.snap = data[i]]]
    /\ UNCHANGED <<pathIno, data, flock, backups, now, nextId, faults>>

\* a create_backup that returns without writing the snapshot
CB_WriteNothing(p) ==
    /\ st[p].pc = "cb_write"
    /\ st' = [st EXCEPT ![p] = AfterBackup(@)]
    /\ UNCHANGED <<pathIno, data, flock, backups, now, nextId, faults>>

\* create_backup: write the snapshot, cleanup_old_backups(keep=10)
CB_Write(p) ==
    /\ st[p].pc = "cb_write"
    /\ backups' = CleanupOldBackups([backups EXCEPT ![st[p].stamp] = st[p].snap])
    /\ st' = [st EXCEPT ![p] = AfterBackup(@)]
    /\ UNCHANGED <<pathIno, data, flock, now, nextId, faults>>

\* a second of wall-clock time passes
Tick ==
    /\ now < MaxTime
    /\ now' = now + 1
    /\ UNCHANGED <<pathIno, data, flock, backups, nextId, faults, st>>

\* the entries in the container before the run: written by earlier add_memory
\* calls, the oldest of high priority
InitPriority(i) == CASE i % 3 = 1 -> "high" [] i % 3 = 2 -> "low" [] OTHER -> "medium"
InitEntry(i) == [NewEntry(AddMemoryInput(AddDefault), i, 0) EXCEPT !.priority = InitPriority(i)]
InitEntries(k) == [i \in 1..k |-> InitEntry(i)]

\* first access (no storage file yet) or a container with up to MaxInit entries
Init ==
    /\ \E target \in {NoFile} \cup {Container(InitEntries(k), 0) : k \in 0..MaxInit} :
          InitFS(target)
    /\ nextId = MaxInit + 1

Next ==
    \/ \E p \in Procs : StartAdd(p)
    \/ \E p \in Procs : StartRead(p)
    \/ \E p \in Procs : ES_Check(p)
    \/ \E p \in Procs : FL_Open(p)
    \/ \E p \in Procs : FL_OpenFail(p)
    \/ \E p \in Procs : FL_Acquire(p)
    \/ \E p \in Procs : FL_Retry(p)
    \/ \E p \in Procs : FL_Timeout(p)
    \/ \E p \in Procs : LoadRead(p)
    \/ \E p \in Procs : LoadReadFail(p)
    \/ \E p \in Procs : SaveRead(p)
    \/ \E p \in Procs : FL_Unlock(p)
    \/ \E p \in Procs : FL_Close(p)
    \/ \E p \in Procs : AddAppend(p)
    \/ \E p \in Procs : ReadReturn(p)
    \/ \E p \in Procs : CB_Read(p)
    \/ \E p \in Procs : CB_Write(p)
    \/ \E p \in Procs : AW_Open(p)
    \/ \E p \in Procs : AW_WriteChunk(p)
    \/ \E p \in Procs : AW_Flush(p)
    \/ \E p \in Procs : AW_WriteFail(p)
    \/ \E p \in Procs : AW_Replace(p)
    \/ \E p \in Procs : AW_Cleanup(p)
    \/ Tick

Spec == Init /\ [][Next]_vars

\* concurrent calls of the mutating tools, the operating system not failing
NextMut ==
    \/ \E p \in Procs : StartAdd(p)
    \/ \E p \in Procs : StartUpdate(p)
    \/ \E p \in Procs : StartDelete(p)
    \/ \E p \in Procs : StartClear(p)
    \/ \E p \in Procs : ES_Check(p)
    \/ \E p \in Procs : FL_Open(p)
    \/ \E p \in Procs : FL_Acquire(p)
    \/ \E p \in Procs : FL_Retry(p)
    \/ \E p \in Procs : FL_Timeout(p)
    \/ \E p \in Procs : LoadRead(p)
    \/ \E p \in Procs : SaveRead(p)
    \/ \E p \in Procs : FL_Unlock(p)
    \/ \E p \in Procs : FL_Close(p)
    \/ \E p \in Procs : AddAppend(p)
    \/ \E p \in Procs : UpdateApply(p)
    \/ \E p \in Procs : DeleteApply(p)
    \/ \E p \in Procs : ClearBackup(p)
    \/ \E p \in Procs : CB_Read(p)
    \/ \E p \in Procs : CB_Write(p)
    \/ \E p \in Procs : AW_Open(p)
    \/ \E p \in Procs : AW_WriteChunk(p)
    \/ \E p \in Procs : AW_Flush(p)
    \/ \E p \in Procs : AW_Replace(p)
    \/ \E p \in Procs : AW_Cleanup(p)
    \/ Tick

\* a container with MaxInit entries, or a storage file that does not parse
\* next to a snapshot of that container
InitMut ==
    /\ \E damaged \in BOOLEAN :
          /\ data = [i \in Inodes |->
                        IF i # 1 THEN Empty
                        ELSE IF damaged THEN Partial
                        ELSE Container(InitEntries(MaxInit), 0)]
          /\ backups = [t \in Times |->
                           IF damaged /\ t = 0 THEN Container(InitEntries(MaxInit), 0)
                           ELSE NoFile]
    /\ pathIno = [q \in Paths |-> IF q = MEMORY_FILE THEN 1 ELSE 0]
    /\ flock = [i \in Inodes |-> 0]
    /\ now = 0
    /\ faults = 0
    /\ nextId = MaxInit + 1
    /\ st = [p \in Procs |-> InitLocal]

SpecMut == InitMut /\ [][NextMut]_vars

\* the steps inside load_memories, save_memories and atomic_write of a call
\* that runs alone
StepSeq(p) ==
    \/ ES_Check(p)
    \/ FL_Open(p)
    \/ FL_OpenFail(p)
    \/ FL_Acquire(p)
    \/ LoadRead(p)
    \/ LoadReadFail(p)
    \/ SaveRead(p)
    \/ FL_Unlock(p)
    \/ FL_Close(p)
    \/ CB_Read(p)
    \/ CB_Write(p)
    \/ AW_Open(p)
    \/ AW_WriteChunk(p)
    \/ AW_Flush(p)
    \/ AW_WriteFail(p)
    \/ AW_Replace(p)
    \/ AW_Cleanup(p)

\* first access, or a container of up to MAX_ENTRIES entries
InitSeq ==
    /\ \E target \in {NoFile} \cup {Container(InitEntries(k), 0) : k \in 0..MAX_ENTRIES} :
          InitFS(target)
    /\ nextId = MAX_ENTRIES + 1

\* tool calls one after another, with any of the inputs
NextSeq ==
    \/ \E p \in Procs : SeqAdd(p)
    \/ \E p \in Procs : SeqRead(p)
    \/ \E p \in Procs : SeqUpdate(p)
    \/ \E p \in Procs : SeqDelete(p)
    \/ \E p \in Procs : SeqGet(p)
    \/ \E p \in Procs : SeqSearch(p)
    \/ \E p \in Procs : SeqClear(p)
    \/ \E p \in Procs : StepSeq(p)
    \/ \E p \in Procs : AddAppend(p)
    \/ \E p \in Procs : ReadReturn(p)
    \/ \E p \in Procs : GetReturn(p)
    \/ \E p \in Procs : SearchReturn(p)
    \/ \E p \in Procs : UpdateApply(p)
    \/ \E p \in Procs : DeleteApply(p)
    \/ \E p \in Procs : ClearBackup(p)
    \/ Tick

SpecSeq == InitSeq /\ [][NextSeq]_vars

\* every tool once after another with its plain input, on no storage file, on
\* a container and on a storage file that does not parse
InitTools ==
    /\ \E target \in {NoFile, Partial, Container(InitEntries(MaxInit), 0)} :
          /\ pathIno = [q \in Paths |-> IF q = MEMORY_FILE /\ target # NoFile THEN 1 ELSE 0]
          /\ data = [i \in Inodes |-> IF i = 1 /\ target # NoFile THEN target ELSE Empty]
          /\ backups = [t \in Times |->
                           IF target = Partial /\ t = 0
                           THEN Container(InitEntries(MaxInit), 0) ELSE NoFile]
    /\ flock = [i \in Inodes |-> 0]
    /\ now = 0
    /\ faults = 0
    /\ nextId = MaxInit + 1
    /\ st = [p \in Procs |-> InitLocal]

ToolStep(p) ==
    \/ StepSeq(p) \/ HealthBody(p) \/ AddAppend(p) \/ ReadReturn(p) \/ GetReturn(p)
    \/ SearchReturn(p) \/ UpdateApply(p) \/ DeleteApply(p) \/ ClearBackup(p)
    \/ StatsReturn(p) \/ HealthReturn(p)

NextTools ==
    \/ \E p \in Procs : Solo(p) /\ StartAdd(p)
    \/ \E p \in Procs : Solo(p) /\ StartRead(p)
    \/ \E p \in Procs : Solo(p) /\ StartUpdate(p)
    \/ \E p \in Procs : Solo(p) /\ StartDelete(p)
    \/ \E p \in Procs : Solo(p) /\ \E id \in TargetIds : get_memory(p, [entry_id |-> id])
    \/ \E p \in Procs : Solo(p) /\ \E raw \in SearchInputs : search_memory(p, raw)
    \/ \E p \in Procs : Solo(p) /\ get_memory_stats(p)
    \/ \E p \in Procs : Solo(p) /\ \E confirm \in BOOLEAN : clear_memory(p, confirm)
    \/ \E p \in Procs : Solo(p) /\ health_check(p)
    \/ \E p \in Procs : ToolStep(p)
    \/ Tick

SpecTools == InitTools /\ [][NextTools]_vars

\* concurrent add_memory, update_memory and delete_memory calls on a container,
\* the operating system not failing
InitDel ==
    /\ InitFS(Container(InitEntries(MaxInit), 0))
    /\ nextId = MaxInit + 1

NextDel ==
    \/ \E p \in Procs : StartAdd(p)
    \/ \E p \in Procs : StartUpdate(p)
    \/ \E p \in Procs : StartDelete(p)
    \/ \E p \in Procs : ES_Check(p)
    \/ \E p \in Procs : FL_Open(p)
    \/ \E p \in Procs : FL_Acquire(p)
    \/ \E p \in Procs : FL_Retry(p)
    \/ \E p \in Procs : FL_Timeout(p)
    \/ \E p \in Procs : LoadRead(p)
    \/ \E p \in Procs : SaveRead(p)
    \/ \E p \in Procs : FL_Unlock(p)
    \/ \E p \in Procs : FL_Close(p)
    \/ \E p \in Procs : AddAppend(p)
    \/ \E p \in Procs : UpdateApply(p)
    \/ \E p \in Procs : DeleteApply(p)
    \/ \E p \in Procs : CB_Read(p)
    \/ \E p \in Procs : CB_Write(p)
    \/ \E p \in Procs : AW_Open(p)
    \/ \E p \in Procs : AW_WriteChunk(p)
    \/ \E p \in Procs : AW_Flush(p)
    \/ \E p \in Procs : AW_Replace(p)
    \/ \E p \in Procs : AW_Cleanup(p)
    \/ Tick

SpecDel == InitDel /\ [][NextDel]_vars

\* the name of a snapshot written before the run
PastName == 0 - 1

\* the storage file as an add_memory may find it: a container, a file of zero
\* bytes, a v1 list, content that does not parse, JSON of another shape; with
\* or without a snapshot of an earlier save
InitAdd ==
    /\ \E target \in {Container(InitEntries(k), 0) : k \in {0, MaxInit, MAX_ENTRIES}}
                      \cup {Empty, Legacy(InitEntries(MaxInit)), Partial, Other} :
          /\ pathIno = [q \in Paths |-> IF q = MEMORY_FILE THEN 1 ELSE 0]
          /\ data = [i \in Inodes |-> IF i = 1 THEN target ELSE Empty]
    /\ \E snapshot \in {NoFile, Container(InitEntries(MaxInit), 0)} :
          backups = [t \in {PastName} \cup Times |->
                        IF t = PastName THEN snapshot ELSE NoFile]
    /\ flock = [i \in Inodes |-> 0]
    /\ now = 0
    /\ faults = 0
    /\ nextId = MAX_ENTRIES + 1
    /\ st = [p \in Procs |-> InitLocal]

\* add_memory calls one after another, with any input, the operating system
\* failing at most MaxFaults times
NextAdd ==
    \/ \E p \in Procs : SeqAdd(p)
    \/ \E p \in Procs : StepSeq(p)
    \/ \E p \in Procs : AddAppend(p)
    \/ Tick

SpecAdd == InitAdd /\ [][NextAdd]_vars

\* the storage file is damaged from outside between two calls: what is left
\* of the container does not parse
Damage ==
    /\ \A p \in Procs : st[p].pc \in {"idle", "done"}
    /\ pathIno[MEMORY_FILE] # 0
    /\ data[pathIno[MEMORY_FILE]].kind = "container"
    /\ data' = [data EXCEPT ![pathIno[MEMORY_FILE]] = Partial]
    /\ UNCHANGED <<pathIno, flock, backups, now, nextId, faults, st>>

\* a container, with or without the snapshot an earlier save left
InitDamage ==
    /\ \E k \in {MaxInit, MAX_ENTRIES} :
          /\ pathIno = [q \in Paths |-> IF q = MEMORY_FILE THEN 1 ELSE 0]
          /\ data = [i \in Inodes |-> IF i = 1 THEN Container(InitEntries(k), 0) ELSE Empty]
    /\ \E snapshot \in {NoFile, Container(<<>>, 0)} :
          backups = [t \in {PastName} \cup Times |->
                        IF t = PastName THEN snapshot ELSE NoFile]
    /\ flock = [i \in Inodes |-> 0]
    /\ now = 0
    /\ faults = 0
    /\ nextId = MAX_ENTRIES + 1
    /\ st = [p \in Procs |-> InitLocal]

\* tool calls one after another, the storage file being damaged between them
NextDamage ==
    \/ \E p \in Procs : Solo(p) /\ StartAdd(p)
    \/ \E p \in Procs : Solo(p) /\ StartUpdate(p)
    \/ \E p \in Procs : Solo(p) /\ StartDelete(p)
    \/ \E p \in Procs : Solo(p) /\ StartClear(p)
    \/ \E p \in Procs : Solo(p) /\ StartRead(p)
    \/ \E p \in Procs : StepSeq(p)
    \/ \E p \in Procs : AddAppend(p)
    \/ \E p \in Procs : UpdateApply(p)
    \/ \E p \in Procs : DeleteApply(p)
    \/ \E p \in Procs : ClearBackup(p)
    \/ \E p \in Procs : ReadReturn(p)
    \/ Damage
    \/ Tick

SpecDamage == InitDamage /\ [][NextDamage]_vars

\* ------------------------------------------------- callers that call again
MaxCalls == 1

\* a caller whose add_memory has returned makes its next call
NextCall(p) ==
    /\ st[p].pc = "done" /\ st[p].op = "add"
    /\ nextId <= MaxInit + 1 + MaxCalls
    /\ st' = [st EXCEPT ![p] = InitLocal]
    /\ UNCHANGED <<pathIno, data, flock, backups, now, nextId, faults>>

\* the storage file exists and holds a container
InitAgain ==
    /\ InitFS(Container(InitEntries(MaxInit), 0))
    /\ nextId = MaxInit + 1

\* concurrent add_memory and read_memory calls, a caller calling again after
\* its add has returned, the operating system not failing
NextAgain ==
    \/ \E p \in Procs : StartAdd(p)
    \/ \E p \in Procs : StartRead(p)
    \/ \E p \in Procs : NextCall(p)
    \/ \E p \in Procs : ES_Check(p)
    \/ \E p \in Procs : FL_Open(p)
    \/ \E p \in Procs : FL_Acquire(p)
    \/ \E p \in Procs : FL_Retry(p)
    \/ \E p \in Procs : FL_Timeout(p)
    \/ \E p \in Procs : LoadRead(p)
    \/ \E p \in Procs : SaveRead(p)
    \/ \E p \in Procs : FL_Unlock(p)
    \/ \E p \in Procs : FL_Close(p)
    \/ \E p \in Procs : AddAppend(p)
    \/ \E p \in Procs : ReadReturn(p)
    \/ \E p \in Procs : CB_Read(p)
    \/ \E p \in Procs : CB_Write(p)
    \/ \E p \in Procs : AW_Open(p)
    \/ \E p \in Procs : AW_WriteChunk(p)
    \/ \E p \in Procs : AW_Flush(p)
    \/ \E p \in Procs : AW_Replace(p)
    \/ \E p \in Procs : AW_Cleanup(p)
    \/ Tick

SpecAgain == InitAgain /\ [][NextAgain]_vars

\* ---------------------------------------------------------- count_words
MaxText == 6

\* the texts of the tests of count_words and shorter ones: words, runs of
\* whitespace between and around them, the empty string
WordTexts == UNION {[1..k -> {"a", " "}] : k \in 0..MaxText}

\* count_words(text): the caller gets the number back
count_call(p) ==
    /\ st[p].pc = "idle"
    /\ st' = [st EXCEPT ![p] =
                Returned([@ EXCEPT !.op = "count",
                                   !.entry_number = count_words(st[p].params.text)], "ok")]
    /\ UNCHANGED <<pathIno, data, flock, backups, now, nextId, faults>>

InitWords ==
    /\ \E text \in WordTexts :
          st = [p \in Procs |-> [InitLocal EXCEPT !.params = [text |-> text]]]
    /\ pathIno = [q \in Paths |-> 0]
    /\ data = [i \in Inodes |-> Empty]
    /\ flock = [i \in Inodes |-> 0]
    /\ backups = [t \in Times |-> NoFile]
    /\ now = 0
    /\ faults = 0
    /\ nextId = 0

NextWords == \E p \in Procs : count_call(p)

SpecWords == InitWords /\ [][NextWords]_vars

\* a content of one word that alone fills a response beyond CHARACTER_LIMIT
LongContent == [i \in 1..CHARACTER_LIMIT |-> "a"]

\* containers of up to MAX_ENTRIES entries, each with a short or a long content
LongLists ==
    UNION {{[i \in 1..k |-> IF i \in long
                            THEN [InitEntry(i) EXCEPT !.content = LongContent]
                            ELSE InitEntry(i)] : long \in SUBSET (1..k)}
           : k \in 0..MAX_ENTRIES}

InitRead ==
    /\ \E l \in LongLists : InitFS(Container(l, 0))
    /\ nextId = MAX_ENTRIES + 1

\* read_memory calls one after another, without failures
NextRead ==
    \/ \E p \in Procs : SeqRead(p)
    \/ \E p \in Procs : ES_Check(p)
    \/ \E p \in Procs : FL_Open(p)
    \/ \E p \in Procs : FL_Acquire(p)
    \/ \E p \in Procs : LoadRead(p)
    \/ \E p \in Procs : FL_Unlock(p)
    \/ \E p \in Procs : FL_Close(p)
    \/ \E p \in Procs : ReadReturn(p)

SpecRead == InitRead /\ [][NextRead]_vars

\* names of snapshots written before the run: older than every time of the run
PastNames == (0 - (KEEP + 1))..(0 - 1)

\* a backup directory that holds KEEP - 1 or KEEP snapshots of earlier saves
InitBackup ==
    /\ \E kept \in {S \in SUBSET PastNames : Cardinality(S) \in {KEEP - 1, KEEP}} :
          backups = [t \in PastNames \cup Times |->
                        IF t \in kept THEN Container(<<>>, 0) ELSE NoFile]
    /\ pathIno = [q \in Paths |-> IF q = MEMORY_FILE THEN 1 ELSE 0]
    /\ data = [i \in Inodes |-> IF i = 1 THEN Container(InitEntries(MaxInit), 0) ELSE Empty]
    /\ flock = [i \in Inodes |-> 0]
    /\ now = 0
    /\ faults = 0
    /\ nextId = MaxInit + 1
    /\ st = [p \in Procs |-> InitLocal]

\* add_memory and clear_memory one after another, without failures
NextBackup ==
    \/ \E p \in Procs : Solo(p) /\ StartAdd(p)
    \/ \E p \in Procs : Solo(p) /\ StartClear(p)
    \/ \E p \in Procs : ES_Check(p)
    \/ \E p \in Procs : FL_Open(p)
    \/ \E p \in Procs : FL_Acquire(p)
    \/ \E p \in Procs : LoadRead(p)
    \/ \E p \in Procs : SaveRead(p)
    \/ \E p \in Procs : FL_Unlock(p)
    \/ \E p \in Procs : FL_Close(p)
    \/ \E p \in Procs : AddAppend(p)
    \/ \E p \in Procs : ClearBackup(p)
    \/ \E p \in Procs : CB_Read(p)
    \/ \E p \in Procs : CB_Write(p)
    \/ \E p \in Procs : AW_Open(p)
    \/ \E p \in Procs : AW_WriteChunk(p)
    \/ \E p \in Procs : AW_Flush(p)
    \/ \E p \in Procs : AW_Replace(p)
    \/ Tick

SpecBackup == InitBackup /\ [][NextBackup]_vars

\* what the backup file of name t may hold before the run: nothing, a
\* truncated text, JSON of another shape, a container or a legacy list
SnapshotChoices(t) ==
    {NoFile, Partial, Other, Container(InitEntries(t + 1), 0),
     Legacy(InitEntries(t + MaxTime + 2))}

\* a storage file that was damaged outside the program (or one that parses),
\* with any combination of snapshots in BACKUP_DIR
InitRecover ==
    /\ \E target \in {Partial, Other, Container(<<>>, 0)} :
          /\ pathIno = [q \in Paths |-> IF q = MEMORY_FILE THEN 1 ELSE 0]
          /\ data = [i \in Inodes |-> IF i = 1 THEN target ELSE Empty]
    /\ backups \in {b \in [Times -> UNION {SnapshotChoices(t) : t \in Times}] :
                       \A t \in Times : b[t] \in SnapshotChoices(t)}
    /\ flock = [i \in Inodes |-> 0]
    /\ now = MaxTime
    /\ faults = 0
    /\ nextId = 2 * MaxTime + 3
    /\ st = [p \in Procs |-> InitLocal]

StartGet(p) == get_memory(p, [entry_id |-> 1])

\* concurrent read-only calls: load_memories and the return
NextRecover ==
    \/ \E p \in Procs : StartRead(p)
    \/ \E p \in Procs : StartGet(p)
    \/ \E p \in Procs : ES_Check(p)
    \/ \E p \in Procs : FL_Open(p)
    \/ \E p \in Procs : FL_OpenFail(p)
    \/ \E p \in Procs : FL_Acquire(p)
    \/ \E p \in Procs : FL_Retry(p)
    \/ \E p \in Procs : FL_Timeout(p)
    \/ \E p \in Procs : LoadRead(p)
    \/ \E p \in Procs : LoadReadFail(p)
    \/ \E p \in Procs : FL_Unlock(p)
    \/ \E p \in Procs : FL_Close(p)
    \/ \E p \in Procs : ReadReturn(p)
    \/ \E p \in Procs : GetReturn(p)

SpecRecover == InitRecover /\ [][NextRecover]_vars

Target == IF pathIno[MEMORY_FILE] = 0 THEN NoFile ELSE data[pathIno[MEMORY_FILE]]

\* -------------------------------------------------- the query functions
\* entries as the tests of filter, sort and search use them: two agents, upper
\* and lower case, tags in both orders, all priorities, three timestamps
QueryEntry(entry_id, agent_name, content, tags, priority, timestamp) ==
    NewEntry([agent_name |-> agent_name, content |-> content, tags |-> tags,
              priority |-> priority, metadata |-> {}], entry_id, timestamp)

QueryPool ==
    {QueryEntry(1, <<"a">>, <<"a", " ", "A">>, << <<"a">> >>, "high", 0),
     QueryEntry(2, <<"A">>, <<"a">>, << <<"a", "a">>, <<"a">> >>, "low", 1),
     QueryEntry(3, <<"a">>, <<"A">>, <<>>, "medium", 2),
     QueryEntry(4, <<"a">>, <<"a">>, << <<"a">>, <<"a", "a">> >>, "high", 1)}

\* lists of up to MAX_ENTRIES different entries, in every order
QueryLists ==
    UNION {{l \in [1..k -> QueryPool] : \A i, j \in 1..k : i # j => l[i] # l[j]}
           : k \in 0..MAX_ENTRIES}

FilterInputs ==
    [agent_filter : {Absent, Some(<<>>), Some(<<"a">>)},
     tags : {Absent, Some(<<>>), Some(<< <<"a">> >>), Some(<< <<"a">>, <<"a", "a">> >>)},
     priority : {Absent, Some("high")},
     date_from : {Absent, Some(1)},
     date_to : {Absent, Some(EmptyDate), Some(1)}]

SortInputs == [sort_order : {"chronological", "reverse", "priority"}]

QueryInputs ==
    [query : {<<>>, <<"a">>, <<"A">>, <<"a", "a">>}, case_sensitive : BOOLEAN]

\* the list the functions are applied to
QueryList == Target.entries

\* a call of filter_memories, sort_memories or search_memories on the list
filter_call(p) ==
    /\ \A q \in Procs : st[q].pc = "idle"
    /\ \E f \in FilterInputs :
          st' = [st EXCEPT ![p] =
                    Returned([@ EXCEPT !.op = "filter", !.params = f,
                                       !.out = filter_memories(QueryList, f.agent_filter,
                                                   f.tags, f.priority, f.date_from,
                                                   f.date_to)], "ok")]
    /\ UNCHANGED <<pathIno, data, flock, backups, now, nextId, faults>>

sort_call(p) ==
    /\ \A q \in Procs : st[q].pc = "idle"
    /\ \E f \in SortInputs :
          st' = [st EXCEPT ![p] =
                    Returned([@ EXCEPT !.op = "sort", !.params = f,
                                       !.out = sort_memories(QueryList, f.sort_order)],
                             "ok")]
    /\ UNCHANGED <<pathIno, data, flock, backups, now, nextId, faults>>

search_call(p) ==
    /\ \A q \in Procs : st[q].pc = "idle"
    /\ \E f \in QueryInputs :
          st' = [st EXCEPT ![p] =
                    Returned([@ EXCEPT !.op = "search", !.params = f,
                                       !.out = search_memories(QueryList, f.query,
                                                               f.case_sensitive)], "ok")]
    /\ UNCHANGED <<pathIno, data, flock, backups, now, nextId, faults>>

InitQuery ==
    /\ \E l \in QueryLists : InitFS(Container(l, 0))
    /\ nextId = Cardinality(QueryPool) + 1

NextQuery ==
    \/ \E p \in Procs : filter_call(p)
    \/ \E p \in Procs : sort_call(p)
    \/ \E p \in Procs : search_call(p)

SpecQuery == InitQuery /\ [][NextQuery]_vars

AllDone == \A p \in Procs : st[p].pc = "done"
OpsOf(kind) == {p \in Procs : st[p].op = kind}

\* ------------------------------------------------------------------ claims

\* C1: when concurrent add_memory calls have all returned success (no injected
\* failure, no lock error or timeout swallowed on the way), the persisted
\* container holds one new entry per call, under distinct ids: no add is lost.
C1_NoLostAdd ==
    (/\ AllDone /\ faults = 0
     /\ \A p \in Procs : /\ st[p].op = "add" /\ st[p].result = "ok"
                         /\ st[p].errLoad = "none" /\ st[p].errSave = "none") =>
        /\ Target.kind = "container"
        /\ \A p, q \in Procs : p # q => st[p].entry_id # st[q].entry_id
        /\ \A p \in Procs :
              \E k \in DOMAIN Target.entries : Target.entries[k].entry_id = st[p].entry_id
        /\ Cardinality({k \in DOMAIN Target.entries : Target.entries[k].entry_id > MaxInit})
              = NProcs

\* C2: from the backup snapshot to the atomic replace of the container, a
\* caller inside save_memories holds the exclusive lock on the storage file.
C2_SaveHoldsLock ==
    \A p \in Procs :
        (/\ faults = 0
         /\ st[p].phase = "save"
         /\ \/ st[p].pc = "cb_write"
            \/ st[p].awFrom = "save" /\ st[p].pc \in {"aw_open", "aw_write", "aw_flush", "aw_replace"})
        => HoldsLock(p)

\* C6: an operation in which acquiring the lock timed out, in the load phase
\* or in the save phase, ends with the lock-timeout failure (save_memories
\* propagates FileLockTimeout instead of writing).
C6_TimeoutAborts ==
    \A p \in Procs :
        (faults = 0 /\ st[p].pc = "done"
         /\ "FileLockTimeout" \in {st[p].errLoad, st[p].errSave})
        => st[p].result = "lock_timeout"

\* C7: an operation whose load met a FileLockError (a locking failure other
\* than timeout, or an I/O failure inside the lock scope) returns a failure to
\* its caller.
C7_LoadErrorPropagates ==
    \A p \in Procs :
        (st[p].pc = "done" /\ st[p].errLoad = "FileLockError") => st[p].result # "ok"

\* C3: file_lock is exclusive: at most one caller is inside the body of
\* `with file_lock(target)` at any time.
C3_Exclusive ==
    \A p, q \in Procs : p # q => ~(InScope(p) /\ InScope(q))

\* one caller is inside the scope while another has already failed an attempt
C3_Witness ==
    \E p, q \in Procs : InScope(p) /\ st[q].pc = "fl_try" /\ st[q].elapsed > 0

\* C8: the lock is released on every exit path of the with scope: a lock is
\* only ever held by a caller whose with statement on that file has not yet
\* exited, so a caller that has left the scope holds nothing and a later
\* acquirer finds the lock free.
C8_Released ==
    \A i \in Inodes : flock[i] # 0 =>
        /\ st[flock[i]].pc \in {"fl_body", "t_rewrite", "fl_unlock"}
        /\ st[flock[i]].file_handle = i

\* a caller left the scope through an exception of its body, and another
\* caller is inside the scope afterwards
C8_Witness ==
    \E p, q \in Procs :
        /\ faults = 0 /\ st[p].pc = "done" /\ st[p].op = "lock_hold"
        /\ st[p].result = "FileLockError"
        /\ InScope(q)

\* C9: the time a caller spends waiting for the lock is bounded by the
\* configured timeout.
C9_WaitBoundedByTimeout ==
    \A p \in Procs : st[p].elapsed <= TIMEOUT

\* C10: when all writers that rewrite the container in place under file_lock
\* have returned, and none of them timed out, every caller succeeded (each
\* locked reader parsed a complete container) and the container holds one new
\* entry per writer, with distinct ids.
C10_InPlaceWriters ==
    (AllDone /\ faults = 0 /\ \A p \in Procs : st[p].result # "FileLockTimeout") =>
        /\ \A p \in OpsOf("lock_read") \cup OpsOf("lock_write") : st[p].result = "ok"
        /\ Target.kind = "container"
        /\ Len(Target.entries) = Cardinality(OpsOf("lock_write"))
        /\ \A a, b \in DOMAIN Target.entries :
              a # b => Target.entries[a].entry_id # Target.entries[b].entry_id

\* C4: concurrent atomic_write calls on one target all return without error,
\* the target never holds a truncated or partial content, and once all have
\* returned it holds the complete content of one of the callers.
C4_ConcurrentAtomicWrite ==
    faults = 0 =>
        /\ \A p \in Procs : st[p].result # "io_error"
        /\ Target \in {NoFile, Doc(0)} \cup {Doc(p) : p \in Procs}
        /\ (AllDone => Target \in {Doc(p) : p \in Procs})

SingleWriter(p) == OpsOf("atomic_write") = {p}

\* C5: while a single writer runs atomic_write the target only ever changes
\* from its previous content to the complete new content; a write that raised
\* before the replace leaves no temporary file and the previous content.
C5_TargetStep ==
    \A p \in Procs : SingleWriter(p) =>
        /\ Target' # Target => Target' = Doc(p)
        /\ st'[p].result = "io_error" =>
              /\ pathIno'[temp_path] = 0
              /\ Target' = Target /\ Target' # Doc(p)
C5_SingleWriterAtomic == [][C5_TargetStep]_vars

\* the single writer has a partial temporary file while the target still
\* holds the previous document
C5_Witness ==
    \E p \in Procs :
        /\ SingleWriter(p)
        /\ pathIno[temp_path] # 0 /\ data[pathIno[temp_path]] = Partial
        /\ Target = Doc(0)

\* a snapshot parses when it gives entries: a JSON list, or an object with "entries"
C11_Usable(c) == c.kind \in {"container", "legacy"}
C11_NewestUsable(b) ==
    LET U == {t \in BackupNames(b) : C11_Usable(b[t])}
    IN IF U = {} THEN <<>> ELSE b[CHOOSE t \in U : \A u \in U : u <= t].entries

\* C11: when the storage file does not parse, load_memories returns the
\* entries of the newest snapshot that parses, skipping unusable newer ones,
\* and the empty list when there is no such snapshot; it does not raise: the
\* call goes on with that list and read_memory returns it.
C11_RecoversNewest ==
    \A p \in Procs : (Target = Partial /\ st[p].errLoad = "none") =>
        /\ st[p].pc = "loaded" => st[p].memories = C11_NewestUsable(backups)
        /\ (st[p].pc = "done" /\ st[p].op = "read") =>
              st[p].result = "ok" /\ st[p].out = C11_NewestUsable(backups)
        /\ (st[p].pc = "done" /\ st[p].op = "get") => st[p].result \in {"ok", "not_found"}

\* the newest snapshot is unusable and the read returned the entries of the
\* older legacy list
C11_Witness ==
    \E p \in Procs :
        /\ Target = Partial /\ st[p].pc = "done" /\ st[p].op = "read"
        /\ backups[MaxTime].kind \in {"partial", "other"}
        /\ backups[0].kind = "legacy"
        /\ st[p].out = backups[0].entries /\ st[p].out # <<>>

\* the entries the storage file holds
C12_Entries == IF Target.kind \in {"container", "legacy"} THEN Target.entries ELSE <<>>

\* C12: no step of a read-only operation adds, removes or alters a persisted
\* entry, also when mutating operations run at the same time and when the
\* read-only call is the first access that creates the container.
C12_ReaderStep ==
    \A p \in Procs :
        (faults = 0 /\ st[p].op \in {"read", "get"} /\ st'[p] # st[p]) =>
            C12_Entries' = C12_Entries
C12_ReadOnlyFrame == [][C12_ReaderStep]_vars

\* C13: no two entries of the storage file share an entry_id, whatever the
\* interleaving of add, update, delete and clear calls and of the recoveries
\* from a backup they run into.
C13_UniqueIds ==
    \A a, b \in DOMAIN C12_Entries :
        a # b => C12_Entries[a].entry_id # C12_Entries[b].entry_id

\* the storage file did not parse, an add and an update that loaded from the
\* snapshot have both returned success, and the container holds two entries
C13_Witness ==
    /\ backups[0].kind = "container" /\ backups[MaxTime].kind = "partial"
    /\ \E p, q \in Procs :
          /\ st[p].pc = "done" /\ st[p].op = "add" /\ st[p].result = "ok"
          /\ st[q].pc = "done" /\ st[q].op = "update" /\ st[q].result = "ok"
    /\ Target.kind = "container" /\ Len(Target.entries) = 2

\* the step in which save_memories of caller p puts its container in place
C14_Saves(p) ==
    /\ st[p].pc = "aw_replace" /\ st[p].awFrom = "save"
    /\ st'[p].pc = "done" /\ st'[p].result = "ok"

\* C14: after save_memories(memories) the container holds at most MAX_ENTRIES
\* entries: the whole list when it is not longer than that, else exactly its
\* last MAX_ENTRIES entries in their order (the oldest are dropped, whatever
\* their priority).
C14_SaveStep ==
    \A p \in Procs : C14_Saves(p) =>
        LET m == st[p].memories
            kept == Target'.entries
        IN /\ Target'.kind = "container"
           /\ Len(kept) <= MAX_ENTRIES
           /\ Len(kept) = IF Len(m) > MAX_ENTRIES THEN MAX_ENTRIES ELSE Len(m)
           /\ \A i \in 1..Len(kept) : kept[i] = m[Len(m) - Len(kept) + i]
C14_Rotation == [][C14_SaveStep]_vars

\* an add on a full container has returned: the oldest entry, of high
\* priority, is gone and the new entry is the last of MAX_ENTRIES
C14_Witness ==
    \E p \in Procs :
        /\ st[p].pc = "done" /\ st[p].op = "add" /\ st[p].result = "ok"
        /\ InitPriority(1) = "high"
        /\ Target.kind = "container" /\ Len(Target.entries) = MAX_ENTRIES
        /\ Target.entries[1].entry_id = 2
        /\ Target.entries[MAX_ENTRIES].entry_id = st[p].entry_id

C15_Ids(es) == {es[i].entry_id : i \in DOMAIN es}
C15_Pos(es, id) == CHOOSE i \in DOMAIN es : es[i].entry_id = id

\* C15: the persisted order is the arrival order: over any step of a sequence
\* of tool calls, two entries present before and after keep their relative
\* order; the entry an add saves is the last one; and the calls that filter,
\* sort and limit (read_memory), search (search_memory) or look an entry up
\* leave the persisted sequence as it is.
C15_OrderStep ==
    /\ \A a, b \in C15_Ids(C12_Entries) \cap C15_Ids(C12_Entries') :
          C15_Pos(C12_Entries, a) < C15_Pos(C12_Entries, b) =>
              C15_Pos(C12_Entries', a) < C15_Pos(C12_Entries', b)
    /\ \A p \in Procs : (C14_Saves(p) /\ st[p].op = "add") =>
          /\ C12_Entries' # <<>>
          /\ C12_Entries'[Len(C12_Entries')].entry_id = st[p].entry_id
    /\ \A p \in Procs : (st[p].op \in {"read", "get", "search"} /\ st'[p] # st[p]) =>
          C12_Entries' = C12_Entries
C15_ArrivalOrder == [][C15_OrderStep]_vars

\* the oldest entry was updated and is still first, and a read sorted by
\* priority or newest first returned the entries in another order than the
\* persisted one
C15_Witness ==
    \E p, q \in Procs :
        /\ st[p].pc = "done" /\ st[p].op = "update" /\ st[p].result = "ok"
        /\ st[p].params.entry_id = 1
        /\ st[q].pc = "done" /\ st[q].op = "read" /\ st[q].result = "ok"
        /\ Len(C12_Entries) >= 2 /\ C12_Entries[1].entry_id = 1
        /\ C12_Entries[1].updated_at # None
        /\ Len(st[q].out) = Len(C12_Entries) /\ st[q].out # C12_Entries

C16_ReadOnlyOps == {"read", "get", "search"}

\* C16: a get_memory(entry_id) that follows a successful add_memory, with no
\* mutation in between, returns the entry with the entry_id, timestamp and
\* word_count the add returned and the agent_name, content, tags, priority
\* and metadata of the add's validated input (strings stripped, tags
\* normalised, as add_memory receives them).
C16_GetStep ==
    \A p, q \in Procs :
        (/\ st[q].pc = "loaded" /\ st[q].op = "get" /\ st'[q].pc = "done"
         /\ st[q].errLoad = "none"
         /\ st[p].pc = "done" /\ st[p].op = "add" /\ st[p].result = "ok"
         /\ st[q].params.entry_id = st[p].entry_id
         /\ \A r \in Procs \ {p, q} :
               st[r].pc = "idle" \/ (st[r].pc = "done" /\ st[r].op \in C16_ReadOnlyOps))
        => /\ st'[q].result = "ok"
           /\ st'[q].entry.entry_id = st[p].entry_id
           /\ st'[q].entry.timestamp = st[p].entry.timestamp
           /\ st'[q].entry.word_count = st[p].entry.word_count
           /\ st'[q].entry.agent_name = st[p].params.agent_name
           /\ st'[q].entry.content = st[p].params.content
           /\ st'[q].entry.tags = st[p].params.tags
           /\ st'[q].entry.priority = st[p].params.priority
           /\ st'[q].entry.metadata = st[p].params.metadata
C17_DeleteStep ==
    /\ \A p \in Procs : (C14_Saves(p) /\ st[p].op = "delete") =>
          /\ Len(C12_Entries') = Len(C12_Entries) - 1
          /\ \E k \in DOMAIN C12_Entries :
                /\ C12_Entries[k].entry_id = st[p].params.entry_id
                /\ C12_Entries' = SubSeq(C12_Entries, 1, k - 1)
                                      \o SubSeq(C12_Entries, k + 1, Len(C12_Entries))
          /\ st[p].params.entry_id \notin C15_Ids(C12_Entries')
    /\ \A p, q \in Procs :
          (/\ st[q].pc = "loaded" /\ st[q].op = "get" /\ st'[q].pc = "done"
           /\ st[p].pc = "done" /\ st[p].op = "delete" /\ st[p].result = "ok"
           /\ st[q].params.entry_id = st[p].params.entry_id
           /\ \A r \in Procs \ {p, q} :
                 st[r].pc = "idle" \/ (st[r].pc = "done" /\ st[r].op \in C16_ReadOnlyOps))
          => st'[q].result = "not_found"
C17_Delete == [][C17_DeleteStep]_vars

\* the oldest entry was deleted from a full container and the get of its id
\* answered not found
C17_Witness ==
    \E p, q \in Procs :
        /\ st[p].pc = "done" /\ st[p].op = "delete" /\ st[p].result = "ok"
        /\ st[p].entry.entry_id = 1
        /\ st[q].pc = "done" /\ st[q].op = "get" /\ st[q].result = "not_found"
        /\ st[q].errLoad = "none"
        /\ st[q].params.entry_id = st[p].params.entry_id
        /\ Len(C12_Entries) = MAX_ENTRIES - 1

\* C18: the save of a successful update_memory changes, among the persisted
\* entries, only the targeted one, and in it only updated_at and the fields
\* the call supplied (content together with word_count, tags, priority,
\* metadata), which take the supplied values; entry_id, timestamp and
\* agent_name stay, and with no field supplied only updated_at changes.
C18_Supplied(old, new, params) ==
    /\ new.entry_id = old.entry_id
    /\ new.timestamp = old.timestamp
    /\ new.agent_name = old.agent_name
    /\ new.updated_at # None
    /\ IF params.content = Absent
       THEN new.content = old.content /\ new.word_count = old.word_count
       ELSE new.content = params.content[1]
    /\ IF params.tags = Absent
       THEN new.tags = old.tags
       ELSE new.tags = validate_tags(params.tags[1])
    /\ IF params.priority = Absent
       THEN new.priority = old.priority
       ELSE new.priority = params.priority[1]
    /\ IF params.metadata = Absent
       THEN new.metadata = old.metadata
       ELSE new.metadata = params.metadata[1]

C18_UpdateStep ==
    \A p \in Procs : (C14_Saves(p) /\ st[p].op = "update") =>
        /\ Len(C12_Entries') = Len(C12_Entries)
        /\ \E k \in DOMAIN C12_Entries :
              /\ C12_Entries[k].entry_id = st[p].params.entry_id
              /\ \A j \in DOMAIN C12_Entries \ {k} : C12_Entries'[j] = C12_Entries[j]
              /\ C18_Supplied(C12_Entries[k], C12_Entries'[k], st[p].params)
C18_UpdateFrame == [][C18_UpdateStep]_vars

\* an update without any field went through on an entry that has tags and
\* metadata, in a container with other entries, and an update of tags,
\* priority and metadata went through as well
C18_Witness ==
    \E p, q \in Procs :
        /\ st[p].pc = "done" /\ st[p].op = "update" /\ st[p].result = "ok"
        /\ st[p].params = UpdateNothing(1)
        /\ st[p].entry.tags # <<>> /\ st[p].entry.metadata # {}
        /\ st[q].pc = "done" /\ st[q].op = "update" /\ st[q].result = "ok"
        /\ st[q].params.tags # Absent
        /\ Len(C12_Entries) > 1

\* C19: every persisted entry's word_count is the number of
\* whitespace-delimited tokens of its content (the number of places where a
\* token begins), whatever adds and updates came before.
C19_Tokens(text) ==
    Cardinality({i \in DOMAIN text :
                    ~IsSpace(text[i]) /\ (i = 1 \/ IsSpace(text[i - 1]))})

C19_WordCount ==
    \A k \in DOMAIN C12_Entries :
        C12_Entries[k].word_count = C19_Tokens(C12_Entries[k].content)

\* a persisted entry whose content an update replaced by a text of another
\* word count, next to an entry added with padded content
C19_Witness ==
    \E j, k \in DOMAIN C12_Entries :
        /\ C12_Entries[j].updated_at # None
        /\ C12_Entries[j].content = <<"A", " ", "a">>
        /\ C12_Entries[j].word_count = 2
        /\ C12_Entries[k].content = <<"a", " ", " ", "A">>
        /\ C12_Entries[k].word_count = 2
        /\ InitEntry(1).word_count = 1

\* C20: an add_memory, or an update_memory with new content, whose content
\* has more than MAX_WORDS_PER_ENTRY whitespace-delimited words returns a
\* validation error in the step of the call, which changes nothing in the
\* file system; and no persisted entry has more than MAX_WORDS_PER_ENTRY
\* words.
C20_Content(s) ==
    IF s.op = "add" THEN s.params.content
    ELSE IF s.op = "update" /\ s.params.content # Absent THEN s.params.content[1]
    ELSE <<>>

C20_CallStep ==
    /\ \A p \in Procs :
          (/\ st[p].pc = "idle" /\ st'[p].pc # "idle"
           /\ C19_Tokens(C20_Content(st'[p])) > MAX_WORDS_PER_ENTRY)
          => /\ st'[p].pc = "done"
             /\ st'[p].result = "validation_error"
             /\ UNCHANGED <<pathIno, data, flock, backups>>
    /\ \A k \in DOMAIN C12_Entries' :
          /\ C19_Tokens(C12_Entries'[k].content) <= MAX_WORDS_PER_ENTRY
          /\ C12_Entries'[k].word_count <= MAX_WORDS_PER_ENTRY
C20_Rejected == [][C20_CallStep]_vars

\* an add and an update with a word too many were both rejected while the
\* container held entries
C20_Witness ==
    \E p, q \in Procs :
        /\ st[p].pc = "done" /\ st[p].op = "add" /\ st[p].result = "validation_error"
        /\ C19_Tokens(st[p].params.content) = MAX_WORDS_PER_ENTRY + 1
        /\ st[q].pc = "done" /\ st[q].op = "update" /\ st[q].result = "validation_error"
        /\ C19_Tokens(C20_Content(st[q])) = MAX_WORDS_PER_ENTRY + 1
        /\ Len(C12_Entries) = MAX_ENTRIES

\* C21: every persisted entry has at most MAX_TAGS tags, each of them lower
\* case and without surrounding whitespace, whatever adds and updates came
\* before.
C21_Tags ==
    \A k \in DOMAIN C12_Entries :
        /\ Len(C12_Entries[k].tags) <= MAX_TAGS
        /\ \A i \in DOMAIN C12_Entries[k].tags :
              C12_Entries[k].tags[i] = lower(strip(C12_Entries[k].tags[i]))

\* C22: an update_memory, delete_memory or get_memory whose entry_id is no
\* UUID returns a failure in the step of the call: the call holds no handle
\* and no lock, and the storage file, its content and the snapshots are as
\* they were, so no step of the call ever touches the store.
C22_CallStep ==
    \A p \in Procs :
        (/\ st[p].pc = "idle" /\ st'[p].pc # "idle"
         /\ st'[p].op \in {"update", "delete", "get"}
         /\ st'[p].params.entry_id = InvalidId)
        => /\ st'[p].pc = "done"
           /\ st'[p].result = "invalid_id"
           /\ st'[p].memories = <<>>
           /\ \A i \in DOMAIN flock : flock'[i] # p
           /\ UNCHANGED <<pathIno, data, flock, backups>>
C22_InvalidIdRejected == [][C22_CallStep]_vars

\* an update and a get with an invalid id were rejected, on a storage file
\* that does not exist and was not created
C22_Witness ==
    \E p, q \in Procs :
        /\ st[p].pc = "done" /\ st[p].op = "update" /\ st[p].result = "invalid_id"
        /\ st[q].pc = "done" /\ st[q].op = "get" /\ st[q].result = "invalid_id"
        /\ Target = NoFile

\* C23: a tool call whose input passed validation always ends with a
\* response: while it runs it has a next step, and when it has ended no
\* exception is left and the result is the success response or one of the
\* structured failures (success=false with an error message).
C23_Failures ==
    {"lock_timeout", "io_error", "not_found", "invalid_id", "not_confirmed", "unhealthy"}

C24_SaveStep ==
    \A p \in Procs :
        (C14_Saves(p) /\ Target.kind = "container") =>
            /\ Target'.kind = "container"
            /\ Target'.created_at = Target.created_at
C24_CreatedAtKept == [][C24_SaveStep]_vars

\* C25: when a save_memories replaces a storage file that is not empty, a
\* snapshot with the content the file has just before the replacement is
\* already there; and a snapshot is only ever written by create_backup, of a
\* storage file that exists and is not empty, with the content of that file.
C25_SnapshotStep ==
    /\ \A p \in Procs :
          (C14_Saves(p) /\ Target \notin {NoFile, Empty}) =>
              \E t \in Times : backups[t] = Target
    /\ backups' # backups =>
          \E p \in Procs :
              /\ st[p].pc = "cb_write"
              /\ Target \notin {NoFile, Empty}
              /\ \E t \in Times :
                    /\ backups'[t] = Target
                    /\ \A u \in Times \ {t} : backups'[u] = backups[u]
C26_PruneStep ==
    \A p \in Procs :
        st[p].pc = "cb_write" /\ st'[p].pc # "cb_write" =>
            LET before == BackupNames(backups) \cup {st[p].stamp}
                after == BackupNames(backups')
            IN /\ Cardinality(after) <= KEEP
               /\ after \subseteq before
               /\ st[p].stamp \in after /\ backups'[st[p].stamp] = st[p].snap
               /\ \A u \in before \ after : \A t \in after : u < t
               /\ \A t \in after \ {st[p].stamp} : backups'[t] = backups[t]
               /\ Cardinality(before) > KEEP => Cardinality(after) = KEEP
C27_ClearStep ==
    \A p \in Procs :
        /\ (st[p].pc = "idle" /\ st'[p].op = "clear" /\ st'[p].pc = "done") =>
              /\ st'[p].result = "not_confirmed"
              /\ UNCHANGED <<pathIno, data, flock, backups>>
        /\ (C14_Saves(p) /\ st[p].op = "clear" /\ st[p].errLoad = "none") =>
              /\ Target'.kind = "container"
              /\ Target'.entries = <<>>
              /\ st'[p].entry_number = Len(C12_Entries)
C28_Select(seq, idx) ==
    [k \in 1..Cardinality(idx) |->
        seq[CHOOSE i \in idx : Cardinality({j \in idx : j < i}) = k - 1]]

C28_Tags(t) == {t[k] : k \in DOMAIN t}

\* C28 as stated: filter_memories returns exactly the entries that satisfy
\* every criterion that was passed (agent_name equal, tags a superset of the
\* asked ones, priority equal, timestamp >= date_from, timestamp <= date_to),
\* in their order in the input; a criterion that was not passed does not
\* restrict.
C28_SatisfiesPassed(m, f) ==
    /\ f.agent_filter # Absent => m.agent_name = f.agent_filter[1]
    /\ f.tags # Absent => C28_Tags(f.tags[1]) \subseteq C28_Tags(m.tags)
    /\ f.priority # Absent => m.priority = f.priority[1]
    /\ f.date_from # Absent => m.timestamp >= f.date_from[1]
    /\ f.date_to # Absent => m.timestamp <= f.date_to[1]

C28_FilterPassed ==
    \A p \in Procs :
        (st[p].pc = "done" /\ st[p].op = "filter") =>
            st[p].out = C28_Select(QueryList,
                            {i \in DOMAIN QueryList :
                                C28_SatisfiesPassed(QueryList[i], st[p].params)})

\* C28 amended: the same, where a criterion restricts only if it was passed
\* and is not empty: an empty agent filter, an empty tag list and an empty
\* date bound are treated like one that was not passed.
C28_SatisfiesGiven(m, f) ==
    /\ f.agent_filter \notin {Absent, Some(<<>>)} => m.agent_name = f.agent_filter[1]
    /\ f.tags \notin {Absent, Some(<<>>)} => C28_Tags(f.tags[1]) \subseteq C28_Tags(m.tags)
    /\ f.priority # Absent => m.priority = f.priority[1]
    /\ f.date_from \notin {Absent, Some(EmptyDate)} => m.timestamp >= f.date_from[1]
    /\ f.date_to \notin {Absent, Some(EmptyDate)} => m.timestamp <= f.date_to[1]

C28_FilterGiven ==
    \A p \in Procs :
        (st[p].pc = "done" /\ st[p].op = "filter") =>
            st[p].out = C28_Select(QueryList,
                            {i \in DOMAIN QueryList :
                                C28_SatisfiesGiven(QueryList[i], st[p].params)})

\* a filter by agent, two tags, priority and both date bounds kept the entry
\* that has the tags in the other order and dropped the entries around it
C28_Witness ==
    \E p \in Procs :
        /\ st[p].pc = "done" /\ st[p].op = "filter"
        /\ st[p].params.agent_filter = Some(<<"a">>)
        /\ st[p].params.tags = Some(<< <<"a">>, <<"a", "a">> >>)
        /\ st[p].params.priority # Absent
        /\ st[p].params.date_from # Absent /\ st[p].params.date_to = Some(1)
        /\ Len(QueryList) = MAX_ENTRIES
        /\ Len(st[p].out) = 1 /\ st[p].out[1] = QueryList[2]

\* where the entry m stands in the list (the entries of a list are different)
C29_Pos(seq, m) == CHOOSE i \in DOMAIN seq : seq[i] = m

C29_SortedCalls(order) ==
    {p \in Procs : st[p].pc = "done" /\ st[p].op = "sort" /\
                   st[p].params.sort_order = order}

\* C29: sort_memories returns the input unchanged for chronological and the
\* exact reversal for reverse; for priority it returns a permutation of the
\* input in which high comes before medium and medium before low, and entries
\* of the same priority keep the order they had in the input.
C29_Sorted ==
    /\ \A p \in C29_SortedCalls("chronological") : st[p].out = QueryList
    /\ \A p \in C29_SortedCalls("reverse") :
          /\ Len(st[p].out) = Len(QueryList)
          /\ \A i \in DOMAIN QueryList :
                st[p].out[i] = QueryList[Len(QueryList) + 1 - i]
    /\ \A p \in C29_SortedCalls("priority") :
          LET out == st[p].out
              Before(a, b) == \/ a = "high" /\ b \in {"medium", "low"}
                              \/ a = "medium" /\ b = "low"
          IN /\ Len(out) = Len(QueryList)
             /\ {out[i] : i \in DOMAIN out} = {QueryList[i] : i \in DOMAIN QueryList}
             /\ \A i, j \in DOMAIN out :
                   i < j => /\ ~Before(out[j].priority, out[i].priority)
                            /\ out[i].priority = out[j].priority =>
                                  C29_Pos(QueryList, out[i]) < C29_Pos(QueryList, out[j])

\* a priority sort moved a high entry from the end to the front and kept the
\* two high entries of the list in their order
C29_Witness ==
    \E p \in C29_SortedCalls("priority") :
        /\ Len(QueryList) = MAX_ENTRIES
        /\ QueryList[1].priority = "high" /\ QueryList[2].priority # "high"
        /\ QueryList[MAX_ENTRIES].priority = "high"
        /\ st[p].out[1] = QueryList[1] /\ st[p].out[2] = QueryList[MAX_ENTRIES]

C30_Texts(m) == {m.content, m.agent_name} \cup {m.tags[j] : j \in DOMAIN m.tags}

C30_Matches(m, query, case_sensitive) ==
    \E t \in C30_Texts(m) :
        \E i \in 1..(Len(t) - Len(query) + 1) :
            \A k \in 1..Len(query) :
                IF case_sensitive THEN t[i + k - 1] = query[k]
                ELSE lower(<<t[i + k - 1]>>) = lower(<<query[k]>>)

\* C30: search_memories returns, once each and in the order of the input, the
\* entries in which the query is a substring of the content, of the agent
\* name or of a tag: compared as written when case_sensitive is true, with
\* both sides lower-cased otherwise. An empty query returns the whole input.
C30_Search ==
    \A p \in Procs :
        (st[p].pc = "done" /\ st[p].op = "search") =>
            LET f == st[p].params
            IN st[p].out =
                 IF f.query = <<>> THEN QueryList
                 ELSE C28_Select(QueryList,
                          {i \in DOMAIN QueryList :
                              C30_Matches(QueryList[i], f.query, f.case_sensitive)})

\* a case-sensitive search for an upper-case letter found two of the entries,
\* one of them by its agent name alone, and left the lower-case entry out
C30_Witness ==
    \E p \in Procs :
        /\ st[p].pc = "done" /\ st[p].op = "search"
        /\ st[p].params.query = <<"A">> /\ st[p].params.case_sensitive
        /\ Len(QueryList) = MAX_ENTRIES /\ Len(st[p].out) = 2
        /\ \E i \in DOMAIN QueryList :
              /\ QueryList[i].agent_name = <<"A">>
              /\ ~Contains(QueryList[i].content, <<"A">>)
              /\ \E k \in DOMAIN st[p].out : st[p].out[k] = QueryList[i]

\* C31: a search_memory that returns reports as its total the number of
\* loaded entries that match the query, also when the limit is smaller than
\* that number, and returns at most limit of the matching entries.
C31_SearchStep ==
    \A p \in Procs :
        (st[p].pc = "loaded" /\ st[p].op = "search" /\ st'[p].pc = "done") =>
            LET f == st[p].params
                matches == {i \in DOMAIN st[p].memories :
                               C30_Matches(st[p].memories[i], f.query, f.case_sensitive)}
            IN /\ st'[p].entry_number = Cardinality(matches)
               /\ f.limit # Absent => Len(st'[p].out) <= f.limit[1]
C31_TotalMatches == [][C31_SearchStep]_vars

\* the entries a read_memory selects from the loaded ones: filtered, sorted,
\* limited
C32_Selected(p) ==
    LET f == st[p].params
    IN Limited(sort_memories(filter_memories(st[p].memories, f.agent_filter, f.tags,
                                             f.priority, Absent, Absent),
                             f.sort_order), f)

\* C32: when the n entries a read_memory selected make a response over the
\* budget, the response holds the last floor(n/2) of them, and the notice
\* states as shown the number of entries in the response and as total the
\* number of entries loaded.
C32_TruncateStep ==
    \A p \in Procs :
        (/\ st[p].pc = "loaded" /\ st[p].op = "read" /\ st'[p].pc = "done"
         /\ FormatLen(C32_Selected(p)) > CHARACTER_LIMIT) =>
            LET n == Len(C32_Selected(p))
            IN /\ st'[p].out = SubSeq(C32_Selected(p), n - (n \div 2) + 1, n)
               /\ st'[p].shown = Len(st'[p].out)
               /\ st'[p].entry_number = Len(st[p].memories)
C32_Truncated == [][C32_TruncateStep]_vars

\* the k-th sleep of a backoff that starts at retry_delay, doubles and is capped
C33_Delay(k) == IF RETRY_DELAY * 2^(k - 1) < MAX_RETRY_DELAY
                THEN RETRY_DELAY * 2^(k - 1) ELSE MAX_RETRY_DELAY

RECURSIVE C33_Slept(_)
C33_Slept(k) == IF k = 0 THEN 0 ELSE C33_Slept(k - 1) + C33_Delay(k)

\* a caller that makes an attempt has slept k times: retry_delay, twice that,
\* ..., each sleep capped, and sleeps the (k+1)-th delay next
C33_Schedule ==
    \A p \in Procs :
        st[p].pc = "fl_try" =>
            \E k \in 0..TIMEOUT : /\ st[p].elapsed = C33_Slept(k)
                                  /\ st[p].current_retry_delay = C33_Delay(k + 1)

\* a failed attempt before the timeout sleeps and tries again; FileLockTimeout
\* is raised at a failed attempt, with the elapsed time at the timeout or past it
C33_AttemptStep ==
    \A p \in Procs :
        /\ (st[p].pc = "fl_try" /\ st'[p].pc = "fl_try" /\ st'[p] # st[p]) =>
              /\ st[p].elapsed < TIMEOUT
              /\ st'[p].elapsed = st[p].elapsed + st[p].current_retry_delay
        /\ (st[p].exc # "FileLockTimeout" /\ st'[p].exc = "FileLockTimeout") =>
              /\ st[p].pc = "fl_try" /\ ~LockFree(st[p].file_handle)
              /\ st'[p].elapsed >= TIMEOUT

\* C33: on contention file_lock sleeps retry_delay, then 2*retry_delay, then
\* 4*retry_delay and so on, every sleep capped at max_retry_delay, and tries
\* the lock again after each sleep; it raises FileLockTimeout at the first
\* failed attempt at which the elapsed time has reached the timeout, never
\* before.
C33_Backoff == []C33_Schedule /\ [][C33_AttemptStep]_vars

\* a caller slept retry_delay, 2*retry_delay and then the capped delay, and
\* its next attempt failed past the timeout
C33_Witness ==
    \E p \in Procs :
        /\ st[p].exc = "FileLockTimeout"
        /\ st[p].elapsed = C33_Slept(3) /\ C33_Delay(3) = MAX_RETRY_DELAY
        /\ C33_Delay(3) < RETRY_DELAY * 4

\* C34: count_words returns the number of whitespace-delimited tokens of its
\* text, a run of whitespace counting as one separator, and 1 for the empty
\* string.
C34_CountWords ==
    \A p \in Procs :
        (st[p].pc = "done" /\ st[p].op = "count") =>
            st[p].entry_number = IF st[p].params.text = <<>> THEN 1
                                 ELSE C19_Tokens(st[p].params.text)

\* C35: the exclusion of file_lock on the storage file path survives the
\* atomic replace of save_memories: a caller holding a lock taken before the
\* replace keeps out every caller that acquires after it, so no two callers
\* are inside a lock scope on the storage file path at the same time.
C35_ExclusiveAcrossSaves ==
    \A p, q \in Procs :
        (p # q /\ st[p].pc = "fl_body" /\ st[q].pc = "fl_body") =>
            ~(HoldsLock(p) /\ HoldsLock(q))

\* C36: once a delete_memory(id) has returned success, the storage file never
\* again holds an entry of that id, whatever add_memory and update_memory
\* calls run next to it (none of these calls recovers from a snapshot: each
\* loads from a storage file that parses).
C36_DeletedStaysDeleted ==
    \A p \in Procs :
        (st[p].pc = "done" /\ st[p].op = "delete" /\ st[p].result = "ok") =>
            st[p].params.entry_id \notin C15_Ids(C12_Entries)

\* the entries that can be got back from the storage file and its snapshots
C37_Recoverable ==
    CASE Target.kind \in {"container", "legacy"} -> Target.entries
      [] Target.kind = "partial" /\ RecoverFromBackup(backups) # Absent ->
            RecoverFromBackup(backups)[1]
      [] OTHER -> <<>>

\* C37: the save of a successful add_memory, whatever the storage file held
\* when the call started (a container, nothing, a v1 list, content that does
\* not parse, JSON of another shape), leaves a container with the entries that
\* could be got back before, without those that rotation evicts, followed by
\* the new entry.
C37_AddStep ==
    \A p \in Procs : (C14_Saves(p) /\ st[p].op = "add") =>
        LET all == C37_Recoverable \o <<st[p].entry>>
            n == IF Len(all) > MAX_ENTRIES THEN MAX_ENTRIES ELSE Len(all)
        IN /\ Target'.kind = "container"
           /\ Target'.entries = SubSeq(all, Len(all) - n + 1, Len(all))
C37_AddKeeps == [][C37_AddStep]_vars

\* C38: the entry_number a successful add_memory returns is the number of
\* entries in the container its save put in place, the position of the new
\* entry in the stored sequence, also when the save rotates.
C38_AddStep ==
    \A p \in Procs : (C14_Saves(p) /\ st[p].op = "add") =>
        /\ st'[p].entry_number = Len(Target'.entries)
        /\ Target'.entries[Len(Target'.entries)].entry_id = st'[p].entry_id
C38_EntryNumber == [][C38_AddStep]_vars

\* the snapshot of the newest name
C39_Newest(b) ==
    b[CHOOSE t \in BackupNames(b) : \A u \in BackupNames(b) : u <= t]

\* there are snapshots and each of them is a container as a save left it
C39_Intact(b) ==
    /\ BackupNames(b) # {}
    /\ \A t \in BackupNames(b) : b[t].kind = "container"

\* the snapshot a save writes is the newest one and holds the entries the
\* container has just before that save; no other step touches the snapshots;
\* and a load that finds the storage file unparsable, all snapshots intact,
\* returns the entries of the newest snapshot
C39_RecoverStep ==
    /\ \A p \in Procs :
          (st[p].pc = "cb_write" /\ st'[p].pc # "cb_write"
           /\ Target.kind = "container" /\ C39_Intact(backups')) =>
              C39_Newest(backups').entries = Target.entries
    /\ backups' # backups => \E p \in Procs : st[p].pc = "cb_write"
    /\ \A p \in Procs :
          (st[p].pc = "fl_body" /\ st[p].phase = "load" /\ st'[p].pc = "fl_unlock"
           /\ st'[p].exc = "none"
           /\ Target.kind = "partial" /\ C39_Intact(backups)) =>
              st'[p].memories = C39_Newest(backups).entries

\* C39: when the storage file has become unparsable after a save that wrote a
\* snapshot, and every snapshot is intact, load_memories returns the entries
\* the container held just before that last save: not the result of the last
\* mutation, and no older state.
C39_RecoversLastSaved == [][C39_RecoverStep]_vars

\* an add was saved on a container next to an older snapshot, the storage
\* file was damaged, and a read_memory got back the entries from before the
\* add, without the added entry
C39_Witness ==
    \E p, q \in Procs :
        /\ st[p].pc = "done" /\ st[p].op = "add" /\ st[p].result = "ok"
        /\ Target.kind = "partial"
        /\ backups[PastName] = Container(<<>>, 0)
        /\ st[q].pc = "done" /\ st[q].op = "read" /\ st[q].result = "ok"
        /\ st[q].out = InitEntries(MaxInit) /\ MaxInit > 0
        /\ st[p].entry_id \notin C15_Ids(st[q].out)

\* C40: file_lock raises FileLockError only when opening or locking the file
\* fails; an exception raised by the caller's code inside the scope reaches
\* the caller as it was raised, so no caller that is inside the scope comes
\* out of it with a FileLockError.
C40_ErrorStep ==
    \A p \in Procs :
        (st[p].exc = "none" /\ st'[p].exc = "FileLockError") =>
            st[p].pc \in {"fl_open", "fl_try"}
C40_LockErrorOnlyFromLocking == [][C40_ErrorStep]_vars
====
